---- MODULE Spec2Model ----
(***************************************************************************)
(* Ledger core of request-chain (src/blockchain/blockchain.py): blocks,    *)
(* hashing, proof of work, mempool admission, mining, direct block append, *)
(* integrity check, truncation repair and longest-chain replacement.       *)
(*                                                                         *)
(* Abstractions.  SHA-256 over the canonical JSON of a block is modelled   *)
(* as the injective tuple of the hashed fields; the number of leading zero *)
(* hex digits of a digest is a deterministic mix of those fields.  An      *)
(* ECDSA signature is the pair (signing key, signed payload).  Credit      *)
(* amounts (Python floats) are integers counted in 1/Unit credits.         *)
(* time.time() is the logical clock `now`.                                 *)
(***************************************************************************)
EXTENDS Integers, Sequences, FiniteSets, TLC

\* ------------------------------------------------------------------ bounds
\* longest chain, genesis included
MaxChain == 3
\* last instant of the clock
MaxTime == 2
\* most transactions pending at once
MaxPool == 1
\* most leading zero digits a digest shows
MaxZeros == 2
\* most outside alterations of the stored chain
MaxFaults == 1
\* most connections made from one address
MaxIncarnation == 2
\* most messages broadcast
MaxBroadcast == 2

\* ------------------------------------------------------- program constants
COINBASE == 0
REQUEST == 1
RELEASE == 2
TRANSFER == 3
BUYOUT_OFFER == 4

DefaultDifficulty == 2

Unit == 10 * 100
MINING_REWARD == 50 * Unit
ITEM_REQUEST_COST == 10 * Unit
GENESIS_CREDITS == 100 * Unit
\* percentages in 1/10000
BASE_DEMAND_PERCENTAGE == 5 * 100
DEMAND_INCREMENT == 0 + 1
HOLDER_ESCROW_PERCENTAGE == 6000 + 667
MINER_ESCROW_PERCENTAGE == 3000 + 333
PercentScale == 100 * 100

\* --------------------------------------------------------------- universes
\* Public keys are identified with their canonical (lower-case, compressed
\* point) hex serialization.
UserKeys == {"0a", "0b"}
LocalGenesisKey == "09"
PeerGenesisKey == "08"
PubKeys == UserKeys \cup {LocalGenesisKey, PeerGenesisKey}
NoKey == ""
Items == {"X"}

\* Python's None where a hash is expected, and where an index is expected.
None == <<"None">>
NoIndex == 0 - 1
\* Results of a call that returns a bool or raises.
True == "True"
False == "False"
Raise == "Raise"

Max(a, b) == IF a >= b THEN a ELSE b

\* accepted_offer is None or the offer's timestamp as a string.
NoOffer == << >>

\* ------------------------------------------------------ key serialization
\* serialize_pubkey: the canonical hex form of a key.
serialize_pubkey(k) == k

\* bytes.fromhex accepts upper-case digits: "0A" decodes to the same point
\* as "0a".  Any other string raises.
deserialize_pubkey(hex) ==
    CASE hex \in PubKeys -> hex
      [] hex = "0A" -> "0a"
      [] hex = "0B" -> "0b"
      [] OTHER -> NoKey

\* ------------------------------------------------------------ transactions
Uid(tag, item, n) == [tag |-> tag, item |-> item, n |-> n]
ItemUid(item) == Uid("ITEM", item, 0)

\* Transaction.__init__
Transaction(pub_key, uid, tx_type, ts, sig, amount, recipient, accepted_offer) ==
    [requester |-> serialize_pubkey(pub_key), uid |-> uid, tx_type |-> tx_type,
     timestamp |-> ts, signature |-> sig, amount |-> amount,
     recipient |-> recipient, accepted_offer |-> accepted_offer]

\* Transaction.to_signable_dict
to_signable_dict(tx) == <<tx.requester, tx.uid, tx.tx_type, tx.timestamp>>

\* Transaction.to_dict: amount, recipient and accepted_offer are left out of
\* the dict exactly when they hold their default, so the tuple is injective.
tx_to_dict(tx) ==
    <<tx.requester, tx.uid, tx.tx_type, tx.timestamp, tx.amount, tx.recipient,
      tx.accepted_offer>>

\* Signatures: a real signature, a system sentinel string, or a value that
\* bytes.fromhex cannot decode (None, garbage).
Sig(signer, payload) == [kind |-> "ecdsa", signer |-> signer, payload |-> payload]
Sentinel(s) == [kind |-> s, signer |-> NoKey, payload |-> <<>>]
NoSig == [kind |-> "none", signer |-> NoKey, payload |-> <<>>]
SentinelKinds == {"COINBASE", "BUYOUT_PAYMENT", "ESCROW_DISTRIBUTION", "GENESIS"}

\* Transaction.sign
sign(tx, priv_key) == [tx EXCEPT !.signature = Sig(priv_key, to_signable_dict(tx))]

\* Transaction.verify: TRUE, FALSE, or Raise when the signature bytes cannot
\* be decoded.
verify(tx) ==
    IF tx.tx_type = COINBASE THEN True
    ELSE IF tx.signature.kind \in SentinelKinds THEN True
    ELSE IF deserialize_pubkey(tx.requester) = NoKey THEN Raise
    ELSE IF tx.signature.kind # "ecdsa" THEN Raise
    ELSE IF tx.signature.signer = deserialize_pubkey(tx.requester)
            /\ tx.signature.payload = to_signable_dict(tx)
         THEN True ELSE False

\* ------------------------------------------------------------------ blocks
ZeroHash == <<>>

\* Block.__init__ (hash is None until sealed)
Block(idx, prev_hash, txs, nonce, ts) ==
    [index |-> idx, prev_hash |-> prev_hash, transactions |-> txs,
     nonce |-> nonce, timestamp |-> ts, hash |-> None]

TxDicts(txs) == [i \in 1..Len(txs) |-> tx_to_dict(txs[i])]

\* Block.compute_hash
compute_hash(blk) ==
    <<blk.index, blk.prev_hash, TxDicts(blk.transactions), blk.nonce, blk.timestamp>>

\* Number of leading zero hex digits of a digest.
LeadingZeros(h) ==
    IF Len(h) # 5 THEN 0
    ELSE (h[1] + Len(h[3]) + h[4] + h[5]) % (MaxZeros + 1)

\* h.startswith(BIT_OP * difficulty)
MeetsTarget(h, difficulty) == LeadingZeros(h) >= difficulty

\* Block.hash_ok
hash_ok(blk) == blk.hash = compute_hash(blk)

\* Block.signatures_ok: the loop returns False at the first transaction that
\* does not verify and raises at the first whose signature cannot be decoded.
RECURSIVE SigsFrom(_, _)
SigsFrom(txs, i) ==
    IF i > Len(txs) THEN True
    ELSE LET v == verify(txs[i]) IN
         IF v # True THEN v ELSE SigsFrom(txs, i + 1)

signatures_ok(blk) == SigsFrom(blk.transactions, 1)

\* ------------------------------------------------------------------- dicts
EmptyDict == << >>
Get(d, k, default) == IF k \in DOMAIN d THEN d[k] ELSE default
Put(d, k, v) == [x \in (DOMAIN d) \cup {k} |-> IF x = k THEN v ELSE d[x]]
Pop(d, k) == [x \in (DOMAIN d) \ {k} |-> d[x]]

\* ------------------------------------------------------------------- chain
\* linkage_ok that accepts any prev_hash
linkage_ok_any(ch, cur_idx, cur_blk) == TRUE

\* Blockchain.linkage_ok
linkage_ok(ch, cur_idx, cur_blk) ==
    IF cur_idx > 1 THEN cur_blk.prev_hash = ch[cur_idx - 1].hash ELSE TRUE

\* Blockchain.integrity_check (positions are 1-based here, 0-based there)
RECURSIVE IntegrityFrom(_, _)
IntegrityFrom(ch, i) ==
    IF i > Len(ch) THEN True
    ELSE IF ~hash_ok(ch[i]) THEN False
    ELSE IF ~linkage_ok(ch, i, ch[i]) THEN False
    ELSE LET s == signatures_ok(ch[i]) IN
         IF s # True THEN s ELSE IntegrityFrom(ch, i + 1)

integrity_check(ch) == IntegrityFrom(ch, 1)

\* find_bad_block without the linkage check
find_bad_block_unlinked(ch) ==
    LET bad == {i \in 1..Len(ch) : ~hash_ok(ch[i]) \/ signatures_ok(ch[i]) # True}
    IN IF bad = {} THEN NoIndex
       ELSE (CHOOSE i \in bad : \A j \in bad : i <= j) - 1

\* Blockchain.find_bad_block: the 0-based index, NoIndex for None, or Raise
\* (modelled as NoIndex - 1) when a signature cannot be decoded.
RaiseIndex == NoIndex - 1
RECURSIVE FindBadFrom(_, _)
FindBadFrom(ch, i) ==
    IF i > Len(ch) THEN NoIndex
    ELSE IF ~hash_ok(ch[i]) THEN i - 1
    ELSE IF ~linkage_ok(ch, i, ch[i]) THEN i - 1
    ELSE LET s == signatures_ok(ch[i]) IN
         IF s = Raise THEN RaiseIndex
         ELSE IF s = False THEN i - 1
         ELSE FindBadFrom(ch, i + 1)

find_bad_block(ch) == FindBadFrom(ch, 1)

\* All transactions of the chain in block order.
RECURSIVE ChainTxs(_)
ChainTxs(ch) ==
    IF Len(ch) = 0 THEN << >>
    ELSE ChainTxs(SubSeq(ch, 1, Len(ch) - 1)) \o ch[Len(ch)].transactions

\* get_balance that takes nothing for a REQUEST
BalanceDelta_request_free(tx, pub_key_hex) ==
    (IF tx.requester = pub_key_hex
     THEN CASE tx.tx_type = COINBASE -> tx.amount
            [] tx.tx_type = RELEASE -> tx.amount
            [] tx.tx_type = TRANSFER -> 0 - tx.amount
            [] OTHER -> 0
     ELSE 0)
    + (IF tx.tx_type = TRANSFER /\ tx.recipient = pub_key_hex THEN tx.amount ELSE 0)

\* Blockchain.get_balance
BalanceDelta(tx, pub_key_hex) ==
    (IF tx.requester = pub_key_hex
     THEN CASE tx.tx_type = COINBASE -> tx.amount
            [] tx.tx_type = RELEASE -> tx.amount
            [] tx.tx_type = REQUEST -> 0 - tx.amount
            [] tx.tx_type = TRANSFER -> 0 - tx.amount
            [] OTHER -> 0
     ELSE 0)
    + (IF tx.tx_type = TRANSFER /\ tx.recipient = pub_key_hex THEN tx.amount ELSE 0)

RECURSIVE SumBalance(_, _, _)
SumBalance(txs, i, pub_key_hex) ==
    IF i > Len(txs) THEN 0
    ELSE BalanceDelta(txs[i], pub_key_hex) + SumBalance(txs, i + 1, pub_key_hex)

get_balance(ch, pub_key_hex) == SumBalance(ChainTxs(ch), 1, pub_key_hex)

\* Blockchain.allocation
RECURSIVE AllocFrom(_, _, _)
AllocFrom(txs, i, allocated) ==
    IF i > Len(txs) THEN allocated
    ELSE LET tx == txs[i] IN
         IF tx.tx_type = REQUEST
         THEN AllocFrom(txs, i + 1,
                        IF tx.amount >= ITEM_REQUEST_COST
                        THEN allocated \cup {tx.uid} ELSE allocated)
         ELSE IF tx.tx_type = RELEASE
         THEN AllocFrom(txs, i + 1, allocated \ {tx.uid})
         ELSE AllocFrom(txs, i + 1, allocated)

allocation(ch) == AllocFrom(ChainTxs(ch), 1, {})

\* calculate_demand_percentage, calculate_penalty_amount,
\* calculate_new_item_value (percentages in 1/PercentScale)
calculate_demand_percentage(demand_count) ==
    BASE_DEMAND_PERCENTAGE + demand_count * DEMAND_INCREMENT
\* penalty at the base percentage whatever the demand count
calculate_penalty_amount_flat(current_value, demand_count) ==
    (current_value * BASE_DEMAND_PERCENTAGE) \div PercentScale
calculate_penalty_amount(current_value, demand_count) ==
    (current_value * calculate_demand_percentage(demand_count)) \div PercentScale
calculate_new_item_value(current_value, demand_count) ==
    (current_value * (PercentScale + calculate_demand_percentage(demand_count)))
        \div PercentScale

\* The four derived per-item maps.
EmptyTracking ==
    [request_times |-> EmptyDict, demand_counters |-> EmptyDict,
     values |-> EmptyDict, escrow |-> EmptyDict]

\* Blockchain._rebuild_item_tracking
RECURSIVE RebuildFrom(_, _, _)
RebuildFrom(txs, i, t) ==
    IF i > Len(txs) THEN t
    ELSE LET tx == txs[i] IN
         IF tx.tx_type = REQUEST
         THEN IF tx.amount = ITEM_REQUEST_COST
              THEN RebuildFrom(txs, i + 1,
                     [t EXCEPT !.request_times = Put(@, tx.uid, tx.timestamp),
                               !.values = Put(@, tx.uid, ITEM_REQUEST_COST),
                               !.demand_counters = Put(@, tx.uid, 0)])
              ELSE IF tx.amount > ITEM_REQUEST_COST
              THEN RebuildFrom(txs, i + 1,
                     [t EXCEPT !.request_times = Put(@, tx.uid, tx.timestamp),
                               !.values = Put(@, tx.uid, ITEM_REQUEST_COST),
                               !.demand_counters = Put(@, tx.uid, 0),
                               !.escrow = Pop(@, tx.uid)])
              ELSE IF tx.uid \in DOMAIN t.values
              THEN LET demand == Get(t.demand_counters, tx.uid, 0) IN
                   RebuildFrom(txs, i + 1,
                     [t EXCEPT !.escrow = Put(@, tx.uid, Get(@, tx.uid, 0) + tx.amount),
                               !.values = Put(@, tx.uid,
                                   calculate_new_item_value(t.values[tx.uid], demand)),
                               !.demand_counters = Put(@, tx.uid, demand + 1)])
              ELSE RebuildFrom(txs, i + 1, t)
         ELSE IF tx.tx_type = RELEASE
         THEN RebuildFrom(txs, i + 1,
                [t EXCEPT !.request_times = Pop(@, tx.uid),
                          !.values = Pop(@, tx.uid),
                          !.demand_counters = Pop(@, tx.uid),
                          !.escrow = Pop(@, tx.uid)])
         ELSE RebuildFrom(txs, i + 1, t)

rebuild_item_tracking(ch) == RebuildFrom(ChainTxs(ch), 1, EmptyTracking)

\* proof_of_work that stores the digest taken before the nonce search
proof_of_work_first_digest(blk, difficulty) ==
    LET tries == {n \in 0..MaxZeros :
                    MeetsTarget(compute_hash([blk EXCEPT !.nonce = @ + n]), difficulty)}
        n == CHOOSE n \in tries : \A m \in tries : n <= m
    IN [blk EXCEPT !.nonce = @ + n, !.hash = compute_hash(blk)]

\* Blockchain.proof_of_work: increments the nonce until the digest meets the
\* target; returns the sealed block.
RECURSIVE proof_of_work(_, _)
proof_of_work(blk, difficulty) ==
    LET h == compute_hash(blk) IN
    IF MeetsTarget(h, difficulty) THEN [blk EXCEPT !.hash = h]
    ELSE proof_of_work([blk EXCEPT !.nonce = @ + 1], difficulty)

\* Blockchain.genesis
genesis_block(genesis_key, ts) ==
    LET genesis_tx == Transaction(genesis_key, Uid("GENESIS", "", 0), COINBASE, ts,
                                  Sentinel("GENESIS"), GENESIS_CREDITS, NoKey, NoOffer)
        b == Block(0, ZeroHash, <<genesis_tx>>, 0, ts)
    IN [b EXCEPT !.hash = compute_hash(b)]

\* ------------------------------------------------------------------- state
VARIABLES
    chain,                  \* Blockchain.chain: the live list of blocks
    difficulty,             \* Blockchain.difficulty
    mempool,                \* Blockchain.mempool
    item_request_times,     \* Blockchain.item_request_times
    item_demand_counters,   \* Blockchain.item_demand_counters
    item_values,            \* Blockchain.item_values
    item_escrow,            \* Blockchain.item_escrow
    active_buyout_offers,   \* Blockchain.active_buyout_offers
    now,                    \* the clock read by time.time()
    last,                   \* the last call made on the ledger and its result
    faults,                 \* how many times a stored block was changed behind
                            \* the ledger's back
    building,               \* per thread: the block an add_block or mine_block
                            \* call has sealed and not yet appended
    net,                    \* P2PNetwork: the peer registry and every Peer made
    probe,                  \* a Transaction object a caller holds
    last_ok                 \* blockchain_monitor's local last_ok (None, True
                            \* or False)

maps == <<item_request_times, item_demand_counters, item_values, item_escrow>>
ledger == <<chain, difficulty, mempool, maps, active_buyout_offers>>
others == <<building, net, probe, last_ok>>
vars == <<ledger, now, last, faults, others>>

\* --------------------------------------------------------------- mempool
\* add_to_mempool, provisional balance (lines 434-441)
RECURSIVE ProvisionalDelta(_, _, _)
ProvisionalDelta(pool, i, requester) ==
    IF i > Len(pool) THEN 0
    ELSE LET m == pool[i] IN
         (IF m.requester = requester
          THEN (IF m.tx_type \in {REQUEST, TRANSFER, BUYOUT_OFFER} THEN 0 - m.amount ELSE 0)
               + (IF m.tx_type = RELEASE THEN m.amount ELSE 0)
          ELSE 0)
         + (IF m.tx_type = TRANSFER /\ m.recipient = requester THEN m.amount ELSE 0)
         + ProvisionalDelta(pool, i + 1, requester)

\* add_to_mempool, provisional allocation (lines 444-449)
RECURSIVE ProvisionalAlloc(_, _, _)
ProvisionalAlloc(pool, i, cur) ==
    IF i > Len(pool) THEN cur
    ELSE LET m == pool[i] IN
         IF m.tx_type = REQUEST /\ m.amount >= ITEM_REQUEST_COST
         THEN ProvisionalAlloc(pool, i + 1, cur \cup {m.uid})
         ELSE IF m.tx_type = RELEASE
         THEN ProvisionalAlloc(pool, i + 1, cur \ {m.uid})
         ELSE ProvisionalAlloc(pool, i + 1, cur)

\* duplicate check that only counts the requester's own pending transactions
HasDuplicate_own(pool, tx) ==
    \E i \in 1..Len(pool) :
        pool[i].uid = tx.uid /\ pool[i].tx_type = tx.tx_type
        /\ pool[i].requester = tx.requester /\ tx.tx_type # BUYOUT_OFFER

\* No duplicate check at all.
HasDuplicate_never(pool, tx) == FALSE

HasDuplicate(pool, tx) ==
    \E i \in 1..Len(pool) :
        pool[i].uid = tx.uid /\ pool[i].tx_type = tx.tx_type /\ tx.tx_type # BUYOUT_OFFER

Rejected == [ok |-> FALSE, amount |-> 0, raises |-> FALSE]
Admitted(amount) == [ok |-> TRUE, amount |-> amount, raises |-> FALSE]
\* tx.verify() raised: the exception leaves add_to_mempool, nothing is returned
Raised == [ok |-> FALSE, amount |-> 0, raises |-> TRUE]

\* Blockchain.add_to_mempool: whether tx is admitted and the amount it is
\* given.  A verify() that raises leaves the mempool as it was.
add_to_mempool(ch, pool, values, demand, tx) ==
    IF tx.tx_type = COINBASE THEN Rejected
    ELSE IF verify(tx) = Raise THEN Raised
    ELSE IF verify(tx) # True THEN Rejected
    ELSE IF HasDuplicate(pool, tx) THEN Rejected
    ELSE
      LET requester_balance ==
              get_balance(ch, tx.requester) + ProvisionalDelta(pool, 1, tx.requester)
          cur == ProvisionalAlloc(pool, 1, allocation(ch))
      IN
      CASE tx.tx_type = REQUEST ->
             IF tx.uid \notin cur
             THEN IF requester_balance < ITEM_REQUEST_COST THEN Rejected
                  ELSE Admitted(ITEM_REQUEST_COST)
             ELSE LET current_value == Get(values, tx.uid, ITEM_REQUEST_COST)
                      demand_count == Get(demand, tx.uid, 0)
                      penalty == calculate_penalty_amount(current_value, demand_count)
                  IN IF requester_balance >= current_value THEN Admitted(current_value)
                     ELSE IF requester_balance < penalty THEN Rejected
                     ELSE Admitted(penalty)
        [] tx.tx_type = RELEASE ->
             IF tx.uid \notin cur THEN Rejected
             ELSE Admitted(Get(values, tx.uid, ITEM_REQUEST_COST))
        [] tx.tx_type = TRANSFER ->
             IF requester_balance < tx.amount THEN Rejected ELSE Admitted(tx.amount)
        [] tx.tx_type = BUYOUT_OFFER ->
             IF tx.uid \notin cur \/ requester_balance < tx.amount THEN Rejected
             ELSE Admitted(tx.amount)
        [] OTHER -> Admitted(tx.amount)

\* ------------------------------------------------------------------ mining
\* [tx for tx in self.mempool if tx.tx_type != BUYOUT_OFFER]
RECURSIVE NonOffers(_)
NonOffers(pool) ==
    IF Len(pool) = 0 THEN << >>
    ELSE IF Head(pool).tx_type # BUYOUT_OFFER
         THEN <<Head(pool)>> \o NonOffers(Tail(pool))
         ELSE NonOffers(Tail(pool))

\* max_txs = 0 stands for None (and for 0, which is as falsy).
\* The selection that does not set offers aside.
txs_to_mine_all(pool, max_txs) ==
    IF max_txs # 0 /\ max_txs < Len(pool) THEN SubSeq(pool, 1, max_txs) ELSE pool

txs_to_mine(pool, max_txs) ==
    LET sel == NonOffers(pool) IN
    IF max_txs # 0 /\ max_txs < Len(sel) THEN SubSeq(sel, 1, max_txs) ELSE sel

\* mine_block lines 527-536: the requester of the first qualifying REQUEST of
\* the latest block that has one.
\* the holder scan without the amount threshold: any REQUEST of the item counts
RECURSIVE HolderInTxs_any_request(_, _, _)
HolderInTxs_any_request(txs, i, item_id) ==
    IF i > Len(txs) THEN NoKey
    ELSE IF txs[i].tx_type = REQUEST /\ txs[i].uid = item_id
         THEN txs[i].requester
         ELSE HolderInTxs_any_request(txs, i + 1, item_id)

RECURSIVE HolderInTxs(_, _, _)
HolderInTxs(txs, i, item_id) ==
    IF i > Len(txs) THEN NoKey
    ELSE IF txs[i].tx_type = REQUEST /\ txs[i].uid = item_id
            /\ txs[i].amount >= ITEM_REQUEST_COST
         THEN txs[i].requester
         ELSE HolderInTxs(txs, i + 1, item_id)

RECURSIVE HolderFrom(_, _, _)
HolderFrom(ch, n, item_id) ==
    IF n = 0 THEN NoKey
    ELSE LET h == HolderInTxs(ch[n].transactions, 1, item_id) IN
         IF h # NoKey THEN h ELSE HolderFrom(ch, n - 1, item_id)

item_holders(ch, cur) ==
    [item_id \in {u \in cur : HolderFrom(ch, Len(ch), u) # NoKey}
        |-> HolderFrom(ch, Len(ch), item_id)]

\* The whole escrow handed to each party.
EscrowShare_all(escrow_amount, percentage) == escrow_amount

EscrowShare(escrow_amount, percentage) == (escrow_amount * percentage) \div PercentScale

\* One iteration of the validation loop of mine_block (lines 538-641).
MineStep(acc, tx, ch, miner, values, escrow, ts) ==
    LET requester == tx.requester
        bal(a, k) == Get(a.balances, k, get_balance(ch, k))
        add(a, k, d) == [a EXCEPT !.balances = Put(@, k, bal(a, k) + d)]
    IN
    CASE tx.tx_type = REQUEST ->
           IF tx.uid \notin acc.cur
           THEN IF bal(acc, requester) >= ITEM_REQUEST_COST /\ tx.amount = ITEM_REQUEST_COST
                THEN [add(acc, requester, 0 - ITEM_REQUEST_COST) EXCEPT
                        !.valid_txs = Append(@, tx),
                        !.cur = @ \cup {tx.uid},
                        !.holders = Put(@, tx.uid, requester)]
                ELSE add(acc, requester, 0)
           ELSE LET current_value == Get(values, tx.uid, ITEM_REQUEST_COST) IN
                IF tx.amount >= current_value
                THEN IF bal(acc, requester) >= tx.amount
                     THEN LET holder == Get(acc.holders, tx.uid, NoKey)
                              escrow_amount == Get(escrow, tx.uid, 0)
                              holder_share == EscrowShare(escrow_amount, HOLDER_ESCROW_PERCENTAGE)
                              miner_share == EscrowShare(escrow_amount, MINER_ESCROW_PERCENTAGE)
                              transfer ==
                                  Transaction(deserialize_pubkey(requester),
                                              Uid("BUYOUT", tx.uid.item, tx.timestamp),
                                              TRANSFER, ts, Sentinel("BUYOUT_PAYMENT"),
                                              tx.amount, holder, NoOffer)
                              escrow_transfer ==
                                  Transaction(miner,
                                              Uid("ESCROW_TO_HOLDER", tx.uid.item, tx.timestamp),
                                              TRANSFER, ts, Sentinel("ESCROW_DISTRIBUTION"),
                                              holder_share, holder, NoOffer)
                              a1 == IF holder # NoKey
                                    THEN [add(add(acc, requester, 0 - tx.amount), holder, tx.amount)
                                            EXCEPT !.valid_txs = Append(@, transfer)]
                                    ELSE acc
                              a2 == IF holder # NoKey /\ escrow_amount > 0
                                    THEN [add(a1, holder, holder_share) EXCEPT
                                            !.valid_txs = Append(@, escrow_transfer),
                                            !.fees = @ + miner_share]
                                    ELSE a1
                          IN [a2 EXCEPT !.valid_txs = Append(@, tx),
                                        !.cur = @ \cup {tx.uid},
                                        !.holders = Put(@, tx.uid, requester)]
                     ELSE add(acc, requester, 0)
                ELSE IF bal(acc, requester) >= tx.amount
                     THEN [add(acc, requester, 0 - tx.amount) EXCEPT
                             !.valid_txs = Append(@, tx)]
                     ELSE add(acc, requester, 0)
      [] tx.tx_type = RELEASE ->
           IF tx.uid \in acc.cur
           THEN LET escrow_amount == Get(escrow, tx.uid, 0)
                    holder_share == EscrowShare(escrow_amount, HOLDER_ESCROW_PERCENTAGE)
                    miner_share == EscrowShare(escrow_amount, MINER_ESCROW_PERCENTAGE)
                    a1 == [add(acc, requester, tx.amount) EXCEPT
                             !.valid_txs = Append(@, tx),
                             !.cur = @ \ {tx.uid}]
                IN IF escrow_amount > 0
                   THEN [add(a1, requester, holder_share) EXCEPT !.fees = @ + miner_share]
                   ELSE a1
           ELSE add(acc, requester, 0)
      [] tx.tx_type = TRANSFER ->
           IF bal(acc, requester) >= tx.amount
           THEN [add(add(acc, requester, 0 - tx.amount), tx.recipient, tx.amount)
                   EXCEPT !.valid_txs = Append(@, tx)]
           ELSE add(acc, requester, 0)
      [] OTHER -> add(acc, requester, 0)

RECURSIVE MineLoop(_, _, _, _, _, _, _, _)
MineLoop(acc, txs, i, ch, miner, values, escrow, ts) ==
    IF i > Len(txs) THEN acc
    ELSE MineLoop(MineStep(acc, txs[i], ch, miner, values, escrow, ts),
                  txs, i + 1, ch, miner, values, escrow, ts)

\* mine_block lines 662-696: tracking update for one mined transaction.
TrackStep(t, tx) ==
    IF tx.tx_type = REQUEST
    THEN IF tx.amount = ITEM_REQUEST_COST \/ tx.amount > ITEM_REQUEST_COST
         THEN [t EXCEPT !.request_times = Put(@, tx.uid, tx.timestamp),
                        !.values = Put(@, tx.uid, ITEM_REQUEST_COST),
                        !.demand_counters = Put(@, tx.uid, 0),
                        !.escrow = Put(@, tx.uid, 0)]
         ELSE LET demand_count == Get(t.demand_counters, tx.uid, 0)
                  current_value == Get(t.values, tx.uid, ITEM_REQUEST_COST)
              IN [t EXCEPT !.escrow = Put(@, tx.uid, Get(@, tx.uid, 0) + tx.amount),
                           !.values = Put(@, tx.uid,
                               calculate_new_item_value(current_value, demand_count)),
                           !.demand_counters = Put(@, tx.uid, demand_count + 1)]
    ELSE IF tx.tx_type = RELEASE
    THEN [t EXCEPT !.request_times = Pop(@, tx.uid),
                   !.values = Pop(@, tx.uid),
                   !.demand_counters = Pop(@, tx.uid),
                   !.escrow = Pop(@, tx.uid)]
    ELSE t

RECURSIVE TrackLoop(_, _, _)
TrackLoop(t, txs, i) ==
    IF i > Len(txs) THEN t ELSE TrackLoop(TrackStep(t, txs[i]), txs, i + 1)

\* self.mempool.remove(tx) for every selected transaction
RECURSIVE RemoveAll(_, _)
RemoveAll(pool, txs) ==
    IF Len(pool) = 0 THEN << >>
    ELSE IF \E i \in 1..Len(txs) : txs[i] = Head(pool)
         THEN RemoveAll(Tail(pool), txs)
         ELSE <<Head(pool)>> \o RemoveAll(Tail(pool), txs)

\* Blockchain.mine_block (the first, live body: lines 515-703): the block it
\* appends, the tracking maps and the mempool it leaves.
mine_block(ch, diff, pool, t, miner_pubkey, max_txs, ts) ==
    LET selected == txs_to_mine(pool, max_txs)
        cur == allocation(ch)
        acc0 == [cur |-> cur, valid_txs |-> << >>, balances |-> EmptyDict,
                 fees |-> 0, holders |-> item_holders(ch, cur)]
        acc == MineLoop(acc0, selected, 1, ch, miner_pubkey, t.values, t.escrow, ts)
        coinbase == Transaction(miner_pubkey, Uid("COINBASE_BLOCK", "", Len(ch)),
                                COINBASE, ts, Sentinel("COINBASE"),
                                MINING_REWARD + acc.fees, NoKey, NoOffer)
        all_txs == <<coinbase>> \o acc.valid_txs
        blk == proof_of_work(Block(Len(ch), ch[Len(ch)].hash, all_txs, 0, ts), diff)
    IN [blk |-> blk,
        tracking |-> TrackLoop(t, acc.valid_txs, 1),
        mempool |-> RemoveAll(pool, selected)]

\* ------------------------------------------------------------ direct append
\* add_block lines 861-864: the signature pass.  True, or Raise when some
\* transaction is refused (ValueError) or its signature cannot be decoded.
\* The signature pass left out.
AddBlockSigs_none(txs, i) == True

RECURSIVE AddBlockSigs(_, _)
AddBlockSigs(txs, i) ==
    IF i > Len(txs) THEN True
    ELSE LET tx == txs[i] IN
         IF tx.tx_type # COINBASE
            /\ tx.signature.kind \notin {"COINBASE", "BUYOUT_PAYMENT", "ESCROW_DISTRIBUTION"}
            /\ verify(tx) # True
         THEN Raise
         ELSE AddBlockSigs(txs, i + 1)

\* add_block lines 871-917: one iteration of the validation loop.
AddBlockStep(acc, tx, ch) ==
    LET requester == tx.requester
        bal(a, k) == Get(a.balances, k, get_balance(ch, k))
        add(a, k, d) == [a EXCEPT !.balances = Put(@, k, bal(a, k) + d)]
    IN
    IF ~acc.ok \/ tx.tx_type = COINBASE THEN acc
    ELSE
    CASE tx.tx_type = REQUEST ->
           IF bal(acc, requester) < tx.amount THEN [acc EXCEPT !.ok = FALSE]
           ELSE IF tx.amount >= ITEM_REQUEST_COST
           THEN IF tx.uid \in acc.cur /\ tx.amount = ITEM_REQUEST_COST
                THEN [acc EXCEPT !.ok = FALSE]
                ELSE [add(acc, requester, 0 - tx.amount) EXCEPT !.cur = @ \cup {tx.uid}]
           ELSE add(acc, requester, 0 - tx.amount)
      [] tx.tx_type = RELEASE ->
           IF tx.uid \notin acc.cur THEN [acc EXCEPT !.ok = FALSE]
           ELSE [add(acc, requester, tx.amount) EXCEPT !.cur = @ \ {tx.uid}]
      [] tx.tx_type = TRANSFER ->
           IF tx.signature.kind \notin {"BUYOUT_PAYMENT", "ESCROW_DISTRIBUTION"}
              /\ bal(acc, requester) < tx.amount
           THEN [acc EXCEPT !.ok = FALSE]
           ELSE add(add(acc, requester, 0 - tx.amount), tx.recipient, tx.amount)
      [] OTHER -> add(acc, requester, 0)

RECURSIVE AddBlockLoop(_, _, _, _)
AddBlockLoop(acc, txs, i, ch) ==
    IF i > Len(txs) THEN acc
    ELSE AddBlockLoop(AddBlockStep(acc, txs[i], ch), txs, i + 1, ch)

\* Blockchain.add_block: whether it raises, and the sealed block it appends
\* when it does not.
add_block(ch, diff, txs, ts) ==
    LET valid == AddBlockSigs(txs, 1) = True
                 /\ AddBlockLoop([cur |-> allocation(ch), balances |-> EmptyDict,
                                  ok |-> TRUE], txs, 1, ch).ok
    IN [raises |-> ~valid,
        blk |-> proof_of_work(Block(Len(ch), ch[Len(ch)].hash, txs, 0, ts), diff)]

\* ------------------------------------------------------------------ repair
\* repair that takes only index 0 for "chain is in good standing"
RepairNeeded_unless_zero(bad_idx) == bad_idx # 0

\* self.chain[:bad_idx + 1]: the bad block is kept
repair_chain_keep_bad(ch, bad_idx) ==
    [i \in 1..(bad_idx + 1) |-> [ch[i] EXCEPT !.hash = compute_hash(ch[i])]]

\* repair that truncates at index 0 as at any other bad index
RepairNeeded_from_genesis(bad_idx) == bad_idx # NoIndex

\* Blockchain.repair: the truthiness test `not bad_idx` takes index 0 as well
\* as None for "chain is in good standing".
RepairNeeded(bad_idx) == ~(bad_idx = NoIndex \/ bad_idx = 0)

\* self.chain[:bad_idx] with every retained hash recomputed
repair_chain(ch, bad_idx) ==
    [i \in 1..bad_idx |-> [ch[i] EXCEPT !.hash = compute_hash(ch[i])]]

\* --------------------------------------------------------- wire records
\* A block or transaction dict as received from a peer.  `absent` names the
\* keys the dict lacks; the slot of an absent key is not read.
tx_to_full_dict(tx) ==
    [requester |-> tx.requester, uid |-> tx.uid, type |-> tx.tx_type,
     timestamp |-> tx.timestamp, signature |-> tx.signature, amount |-> tx.amount,
     recipient |-> tx.recipient, accepted_offer |-> tx.accepted_offer, absent |-> {}]

\* Block.to_full_dict
to_full_dict(blk) ==
    [index |-> blk.index, prev_hash |-> blk.prev_hash,
     transactions |-> [i \in 1..Len(blk.transactions) |->
                          tx_to_full_dict(blk.transactions[i])],
     nonce |-> blk.nonce, timestamp |-> blk.timestamp, hash |-> blk.hash,
     absent |-> {}]

ChainDicts(ch) == [i \in 1..Len(ch) |-> to_full_dict(ch[i])]

\* replace_chain lines 1025-1037: a transaction dict whose rebuild raises (a
\* missing required key, an undecodable requester), and the rebuilt
\* transaction otherwise.
TxRaises(d) ==
    {"requester", "uid", "type"} \cap d.absent # {}
    \/ deserialize_pubkey(d.requester) = NoKey

ReconstructTx(d, ts) ==
    Transaction(deserialize_pubkey(d.requester), d.uid, d.type,
                IF "timestamp" \in d.absent \/ d.timestamp = 0 THEN ts ELSE d.timestamp,
                IF "signature" \in d.absent THEN NoSig ELSE d.signature,
                IF "amount" \in d.absent THEN 0 ELSE d.amount,
                IF "recipient" \in d.absent THEN NoKey ELSE d.recipient,
                IF "accepted_offer" \in d.absent THEN NoOffer ELSE d.accepted_offer)

\* replace_chain lines 1039-1047: one block rebuilt from its dict.
DictTxs(d) == IF "transactions" \in d.absent THEN << >> ELSE d.transactions

BlockRaises(d) ==
    (\E i \in 1..Len(DictTxs(d)) : TxRaises(DictTxs(d)[i]))
    \/ {"index", "prev_hash"} \cap d.absent # {}

ReconstructBlock(d, ts) ==
    [index |-> d.index, prev_hash |-> d.prev_hash,
     transactions |-> [i \in 1..Len(DictTxs(d)) |-> ReconstructTx(DictTxs(d)[i], ts)],
     nonce |-> IF "nonce" \in d.absent THEN 0 ELSE d.nonce,
     timestamp |-> IF "timestamp" \in d.absent \/ d.timestamp = 0 THEN ts
                   ELSE d.timestamp,
     hash |-> IF "hash" \in d.absent THEN None ELSE d.hash]

\* replace_chain lines 1018-1048: temp_blockchain.chain, unless a dict raises.
ReconstructRaises(new_chain) ==
    \E i \in 1..Len(new_chain) : BlockRaises(new_chain[i])

Reconstruct(new_chain, ts) ==
    [i \in 1..Len(new_chain) |-> ReconstructBlock(new_chain[i], ts)]

\* replace_chain that also takes a candidate of equal length
replace_chain_ties(ch, new_chain, ts) ==
    IF Len(new_chain) < Len(ch) THEN [ret |-> FALSE, chain |-> ch]
    ELSE IF ReconstructRaises(new_chain) THEN [ret |-> FALSE, chain |-> ch]
    ELSE LET temp == Reconstruct(new_chain, ts) IN
         IF integrity_check(temp) = True THEN [ret |-> TRUE, chain |-> temp]
         ELSE [ret |-> FALSE, chain |-> ch]

\* replace_chain that swaps the rebuilt chain in before it is checked
replace_chain_eager(ch, new_chain, ts) ==
    IF Len(new_chain) <= Len(ch) THEN [ret |-> FALSE, chain |-> ch]
    ELSE IF ReconstructRaises(new_chain) THEN [ret |-> FALSE, chain |-> ch]
    ELSE LET temp == Reconstruct(new_chain, ts) IN
         [ret |-> integrity_check(temp) = True, chain |-> temp]

\* Blockchain.replace_chain: the result and the chain the ledger holds after.
\* An exception of the rebuild or of the check is caught and gives False.
replace_chain(ch, new_chain, ts) ==
    IF Len(new_chain) <= Len(ch) THEN [ret |-> FALSE, chain |-> ch]
    ELSE IF ReconstructRaises(new_chain) THEN [ret |-> FALSE, chain |-> ch]
    ELSE LET temp == Reconstruct(new_chain, ts) IN
         IF integrity_check(temp) = True THEN [ret |-> TRUE, chain |-> temp]
         ELSE [ret |-> FALSE, chain |-> ch]

\* ------------------------------------------------------- new-block message
\* handle_new_block (src/peer.py 85-109).  The transactions are rebuilt from
\* their dicts with requester, uid, type, timestamp and signature only, so
\* amount is 0.0 and recipient is None whatever the message says.
HandlerTx(d, ts) ==
    Transaction(deserialize_pubkey(d.requester), d.uid, d.type,
                IF "timestamp" \in d.absent \/ d.timestamp = 0 THEN ts ELSE d.timestamp,
                IF "signature" \in d.absent THEN NoSig ELSE d.signature,
                0, NoKey, NoOffer)

HandlerTxs(block_data, ts) ==
    [i \in 1..Len(DictTxs(block_data)) |-> HandlerTx(DictTxs(block_data)[i], ts)]

\* An exception of the rebuild loop or of block_data['index'].
HandlerRaises(block_data) ==
    (\E i \in 1..Len(DictTxs(block_data)) : TxRaises(DictTxs(block_data)[i]))
    \/ "index" \in block_data.absent

\* The test that takes any block at or ahead of the local length.
ExtendsChain_ahead(ch, block_data) == Len(ch) <= block_data.index

\* len(chain.chain) == block_data['index']
ExtendsChain(ch, block_data) == Len(ch) = block_data.index

\* Whether the handler appends a block, and the block.  Every exception,
\* add_block's validation failures included, is caught and reported only.
handle_new_block(ch, diff, block_data, ts) ==
    IF HandlerRaises(block_data) THEN [accepted |-> FALSE, blk |-> ch[Len(ch)]]
    ELSE IF ~ExtendsChain(ch, block_data) THEN [accepted |-> FALSE, blk |-> ch[Len(ch)]]
    ELSE LET r == add_block(ch, diff, HandlerTxs(block_data, ts), ts) IN
         [accepted |-> ~r.raises, blk |-> r.blk]

\* ------------------------------------------------------------ environment
\* A user transaction as a front-end builds it: Transaction(...) at the
\* current time, then signed (by its requester, by somebody else, with a
\* sentinel string in place of a signature, or not at all).
UserTx(requester, tx_type, item, amount, recipient, signer, ts) ==
    LET tx == Transaction(requester, ItemUid(item), tx_type, ts, NoSig, amount,
                          recipient, NoOffer)
    IN CASE signer \in PubKeys -> sign(tx, signer)
         [] signer \in SentinelKinds -> [tx EXCEPT !.signature = Sentinel(signer)]
         [] OTHER -> tx

OtherKey(k) == CHOOSE o \in UserKeys : o # k

\* What callers hand to add_to_mempool: a REQUEST signed by its requester, one
\* signed by somebody else, one that carries no signature, a TRANSFER, and a
\* COINBASE.
SubmitInputs(ts) ==
    {UserTx("0a", REQUEST, it, 0, NoKey, sg, ts) : it \in Items, sg \in {"0a", "0b", "unsigned"}}
    \cup {UserTx("0a", TRANSFER, it, ITEM_REQUEST_COST, "0b", "0a", ts) : it \in Items}
    \cup {UserTx("0a", COINBASE, it, MINING_REWARD, NoKey, "COINBASE", ts) : it \in Items}

\* What callers hand to add_block: the batches of the menu loops and of the
\* new-block handler (amounts left at 0.0): no transaction, a signed REQUEST,
\* a REQUEST signed by somebody else, an unsigned REQUEST.
AddBlockInputs(ts) ==
    {<< >>}
    \cup {<<UserTx("0b", REQUEST, it, 0, NoKey, sg, ts)>> :
            it \in Items, sg \in {"0b", "0a", "unsigned"}}

\* A block as a peer running this code at difficulty d seals it (d = 0: the
\* nonce is left at 0 and no work is done).
PeerSeal(prev_hash, idx, txs, ts, d) ==
    to_full_dict(proof_of_work(Block(idx, prev_hash, txs, 0, ts), d))

PeerTxs(kind, idx, ts) ==
    LET coinbase == Transaction("0b", Uid("COINBASE_BLOCK", "", idx), COINBASE, ts,
                                Sentinel("COINBASE"), MINING_REWARD, NoKey, NoOffer)
    IN IF kind = "req"
       THEN <<coinbase, UserTx("0a", REQUEST, "X", ITEM_REQUEST_COST, NoKey, "0a", ts)>>
       ELSE <<coinbase>>

\* base extended by k peer blocks, the last of the given kind.
RECURSIVE Extend(_, _, _, _, _)
Extend(base, k, kind, d, ts) ==
    IF k = 0 THEN base
    ELSE LET b == Extend(base, k - 1, "empty", d, ts) IN
         Append(b, PeerSeal(b[Len(b)].hash, Len(b), PeerTxs(kind, Len(b), ts), ts, d))

Rehash(d, ts) == [d EXCEPT !.hash = compute_hash(ReconstructBlock(d, ts))]

\* One defect in a block dict.
TamperKinds ==
    {"hash", "no_hash", "nonce", "prev_hash", "index", "sig", "no_sig", "bad_key",
     "alias", "no_index", "no_nonce", "no_ts"}

Upper(hex) == CASE hex = "0a" -> "0A" [] hex = "0b" -> "0B" [] OTHER -> hex

TamperBlock(d, t, ts) ==
    LET forge(x) == [x EXCEPT !.signature = Sig(OtherKey(x.requester), <<x.requester, x.uid, x.type, x.timestamp>>)]
        unsign(x) == [x EXCEPT !.absent = @ \cup {"signature"}]
        badkey(x) == [x EXCEPT !.requester = "zz"]
        alias(x) == [x EXCEPT !.requester = Upper(@)]
    IN
    CASE t = "hash" -> [d EXCEPT !.hash = ZeroHash]
      [] t = "no_hash" -> [d EXCEPT !.absent = @ \cup {"hash"}]
      [] t = "nonce" -> [d EXCEPT !.nonce = @ + 1]
      [] t = "prev_hash" -> Rehash([d EXCEPT !.prev_hash = ZeroHash], ts)
      [] t = "index" -> Rehash([d EXCEPT !.index = @ + 1], ts)
      [] t = "sig" -> [d EXCEPT !.transactions[Len(d.transactions)] = forge(@)]
      [] t = "no_sig" -> [d EXCEPT !.transactions[Len(d.transactions)] = unsign(@)]
      [] t = "bad_key" -> [d EXCEPT !.transactions[Len(d.transactions)] = badkey(@)]
      [] t = "alias" -> [d EXCEPT !.transactions[Len(d.transactions)] = alias(@)]
      [] t = "no_index" -> [d EXCEPT !.absent = @ \cup {"index"}]
      [] t = "no_nonce" -> [d EXCEPT !.absent = @ \cup {"nonce"}]
      [] t = "no_ts" -> [d EXCEPT !.absent = @ \cup {"timestamp"}]
      [] OTHER -> d

\* The chains a chain-response can carry: the local chain, honest extensions
\* of it and of a foreign genesis, an unsealed extension, and extensions with
\* one defect in the last or in an inner block.
PeerGenesis == <<to_full_dict(genesis_block(PeerGenesisKey, 1))>>

Candidates(ch, diff, ts) ==
    {ChainDicts(ch), Extend(PeerGenesis, 1, "empty", diff, ts)}
    \cup {Extend(ChainDicts(ch), k, "empty", diff, ts) : k \in 1..2}
    \cup {Extend(ChainDicts(ch), 1, "req", d, ts) : d \in {0, diff}}
    \cup {LET c == Extend(ChainDicts(ch), 1, "req", diff, ts)
          IN [c EXCEPT ![Len(c)] = TamperBlock(@, t, ts)] : t \in TamperKinds}
    \cup {LET c == Extend(ChainDicts(ch), 2, "empty", diff, ts)
          IN [c EXCEPT ![Len(c) - 1] = TamperBlock(@, t, ts)] :
            t \in {"nonce", "prev_hash", "no_index"}}

\* ------------------------------------------------- facts about a candidate
\* Declarative counterparts of the checks replace_chain runs, recorded with
\* each call so that its result can be compared with them.

\* Every block's stored hash is the digest of its fields, every non-genesis
\* block points at the stored hash of its predecessor, and every transaction
\* verifies.
ChainSound(ch) ==
    \A i \in 1..Len(ch) :
        /\ ch[i].hash = compute_hash(ch[i])
        /\ (i > 1 => ch[i].prev_hash = ch[i - 1].hash)
        /\ \A j \in 1..Len(ch[i].transactions) : verify(ch[i].transactions[j]) = True

\* The live blocks are the candidate's records: same number, same order, and
\* block by block the same fields, transactions and stored hash.
SameBlocks(ch, new_chain) ==
    /\ Len(ch) = Len(new_chain)
    /\ \A i \in 1..Len(ch) : to_full_dict(ch[i]) = new_chain[i]

\* ----------------------------------------------------------------- network
\* The addresses peers connect from or are dialled at, and the Peer objects
\* made for them: one per connection, so the same address can come again.
Addresses == {"p1", "p2"}
PeerObjs == [address : Addresses, id : 1..MaxIncarnation]

\* The threads of a node that call into the ledger: the menu loop and the
\* read loop of a peer.
Threads == {"menu", "peer"}

\* No Peer object made yet for this connection.
Unmade ==
    [made |-> FALSE, connected |-> FALSE, socket |-> FALSE, send_queue |-> << >>,
     reader |-> "none", writer |-> "none"]

\* Peer.__init__ with a socket; the read loop and the write loop start.
Peer ==
    [made |-> TRUE, connected |-> TRUE, socket |-> TRUE, send_queue |-> << >>,
     reader |-> "run", writer |-> "run"]

\* Message(type, payload, sender); seq tells one broadcast from the next.
Message(type, seq) == [type |-> type, sender |-> "self", seq |-> seq]

\* Peer.send
peer_send(st, msg) == [st EXCEPT !.send_queue = Append(@, msg)]

\* Peer.close
peer_close(st) ==
    IF st.socket THEN [st EXCEPT !.socket = FALSE, !.connected = FALSE] ELSE st

\* self.peers.add(peer): Peer.__eq__ and __hash__ go by address, so a set
\* that holds a Peer of that address keeps it and does not take the new one.
RegAdd(registry, p) ==
    IF \E q \in registry : q.address = p.address THEN registry
    ELSE registry \cup {p}

\* discard that leaves the registry as it is
RegDiscard_keep(registry, p) == registry

\* self.peers.discard(peer): removes the element equal to peer.
RegDiscard(registry, p) == {q \in registry : q.address # p.address}

\* broadcast that also queues for registered peers that are not connected,
\* and stops at a peer whose writer has stopped
broadcast_blocking(n, msg) ==
    [n EXCEPT !.peer =
        [p \in PeerObjs |->
            IF p \in n.registry
               /\ \A q \in n.registry : n.peer[q].writer = "run"
            THEN peer_send(n.peer[p], msg) ELSE n.peer[p]]]

\* P2PNetwork.broadcast, under peers_lock
broadcast(n, msg) ==
    [n EXCEPT !.peer =
        [p \in PeerObjs |->
            IF p \in n.registry /\ n.peer[p].connected
            THEN peer_send(n.peer[p], msg) ELSE n.peer[p]]]

\* ----------------------------------------------------------------- actions
\* The last call: its name, its boolean result, the index find_bad_block gave
\* it, whether it left the ledger as it was, for replace_chain the facts
\* about the candidate, for repair whether the chain was sound before and
\* whether what is left is the untouched blocks before the bad one, and for
\* add_to_mempool whether it raised instead of returning.
Call(op, ret, idx, kept) ==
    [op |-> op, ret |-> ret, idx |-> idx, kept |-> kept,
     longer |-> FALSE, rebuilt |-> FALSE, sound |-> FALSE, exact |-> FALSE,
     adopted |-> FALSE, prefix |-> FALSE, was_sound |-> FALSE, raised |-> FALSE]

Init ==
    /\ chain = <<genesis_block(LocalGenesisKey, 1)>>
    /\ difficulty = DefaultDifficulty
    /\ mempool = << >>
    /\ item_request_times = EmptyDict
    /\ item_demand_counters = EmptyDict
    /\ item_values = EmptyDict
    /\ item_escrow = EmptyDict
    /\ active_buyout_offers = EmptyDict
    /\ now = 1
    /\ last = Call("init", TRUE, NoIndex, TRUE)
    /\ faults = 0
    /\ building = [t \in Threads |-> << >>]
    /\ net = [registry |-> {}, peer |-> [p \in PeerObjs |-> Unmade], broadcasts |-> 0]
    /\ probe = << >>
    /\ last_ok = << >>

\* time passes
Tick ==
    /\ now < MaxTime
    /\ now' = now + 1
    /\ UNCHANGED <<ledger, faults, last, others>>

\* Blockchain.add_to_mempool(tx), with at most cap transactions pending
SubmitTo(tx, cap) ==
    LET r == add_to_mempool(chain, mempool, item_values, item_demand_counters, tx)
        admitted == [tx EXCEPT !.amount = r.amount]
    IN
    /\ Len(mempool) < cap
    /\ mempool' = IF r.ok THEN Append(mempool, admitted) ELSE mempool
    /\ active_buyout_offers' =
          IF r.ok /\ tx.tx_type = BUYOUT_OFFER
          THEN Put(active_buyout_offers, tx.uid,
                   Append(Get(active_buyout_offers, tx.uid, << >>), admitted))
          ELSE active_buyout_offers
    /\ UNCHANGED <<chain, difficulty, maps, now, faults>>
    /\ UNCHANGED others
    /\ last' = [Call("add_to_mempool", r.ok, NoIndex, ledger' = ledger) EXCEPT
                  !.raised = r.raises]

Submit(tx) == SubmitTo(tx, MaxPool)

\* Blockchain.mine_block(miner_pubkey, max_txs), up to a chain of depth blocks
MineTo(miner_pubkey, max_txs, depth) ==
    LET t == [request_times |-> item_request_times,
              demand_counters |-> item_demand_counters,
              values |-> item_values, escrow |-> item_escrow]
        r == mine_block(chain, difficulty, mempool, t, miner_pubkey, max_txs, now)
    IN
    /\ Len(chain) < depth
    /\ chain' = Append(chain, r.blk)
    /\ item_request_times' = r.tracking.request_times
    /\ item_demand_counters' = r.tracking.demand_counters
    /\ item_values' = r.tracking.values
    /\ item_escrow' = r.tracking.escrow
    /\ mempool' = r.mempool
    /\ UNCHANGED <<difficulty, active_buyout_offers, now, faults>>
    /\ UNCHANGED others
    /\ last' = Call("mine_block", TRUE, NoIndex, ledger' = ledger)

Mine(miner_pubkey, max_txs) == MineTo(miner_pubkey, max_txs, MaxChain)

\* Blockchain.add_block(txs)
AddBlockTo(txs, depth) ==
    LET r == add_block(chain, difficulty, txs, now)
        t == rebuild_item_tracking(chain')
    IN
    /\ Len(chain) < depth
    /\ chain' = IF r.raises THEN chain ELSE Append(chain, r.blk)
    /\ IF r.raises THEN UNCHANGED maps
       ELSE /\ item_request_times' = t.request_times
            /\ item_demand_counters' = t.demand_counters
            /\ item_values' = t.values
            /\ item_escrow' = t.escrow
    /\ UNCHANGED <<difficulty, mempool, active_buyout_offers, now, faults>>
    /\ UNCHANGED others
    /\ last' = Call("add_block", ~r.raises, NoIndex, ledger' = ledger)

AddBlock(txs) == AddBlockTo(txs, MaxChain)

\* Blockchain.integrity_check()
IntegrityCheck ==
    /\ UNCHANGED <<ledger, now, faults>>
    /\ UNCHANGED others
    /\ last' = Call("integrity_check", integrity_check(chain) = True, NoIndex,
                    ledger' = ledger)

\* Blockchain.find_bad_block()
FindBadBlock ==
    /\ UNCHANGED <<ledger, now, faults>>
    /\ UNCHANGED others
    /\ last' = Call("find_bad_block", TRUE, find_bad_block(chain), ledger' = ledger)

\* Blockchain.repair()
Repair ==
    LET bad_idx == find_bad_block(chain) IN
    /\ bad_idx # RaiseIndex
    /\ chain' = IF RepairNeeded(bad_idx) THEN repair_chain(chain, bad_idx) ELSE chain
    /\ UNCHANGED <<difficulty, mempool, maps, active_buyout_offers, now, faults>>
    /\ UNCHANGED others
    /\ last' = [Call("repair", RepairNeeded(bad_idx), bad_idx, ledger' = ledger) EXCEPT
                  !.prefix = bad_idx >= 0 /\ chain' = SubSeq(chain, 1, bad_idx),
                  !.was_sound = integrity_check(chain) = True]

\* Blockchain.replace_chain(new_chain), called by handle_chain_response
ReplaceChain(new_chain) ==
    LET r == replace_chain(chain, new_chain, now) IN
    /\ Len(new_chain) <= MaxChain
    /\ chain' = r.chain
    /\ difficulty' = difficulty
    /\ UNCHANGED <<mempool, maps, active_buyout_offers, now, faults>>
    /\ UNCHANGED others
    /\ last' = [Call("replace_chain", r.ret, NoIndex, ledger' = ledger) EXCEPT
                  !.longer = Len(new_chain) > Len(chain),
                  !.rebuilt = ~ReconstructRaises(new_chain),
                  !.sound = ~ReconstructRaises(new_chain)
                            /\ ChainSound(Reconstruct(new_chain, now)),
                  !.exact = SameBlocks(chain', new_chain),
                  !.adopted = ~ReconstructRaises(new_chain)
                              /\ chain' = Reconstruct(new_chain, now)]

\* api_corrupt_block (src/ui/web/app.py): overwrite the nonce, prev_hash or
\* timestamp of a non-genesis block and leave its stored hash alone.
CorruptUpTo(idx, field, cap) ==
    /\ faults < cap
    /\ ~(idx <= 0 \/ idx >= Len(chain))
    /\ chain' = [chain EXCEPT ![idx + 1] =
                    CASE field = "nonce" -> [@ EXCEPT !.nonce = @ + 1]
                      [] field = "prev_hash" -> [@ EXCEPT !.prev_hash = ZeroHash]
                      [] OTHER -> [@ EXCEPT !.timestamp = @ + 1]]
    /\ faults' = faults + 1
    /\ UNCHANGED <<difficulty, mempool, maps, active_buyout_offers, now>>
    /\ UNCHANGED others
    /\ last' = Call("corrupt_block", TRUE, NoIndex, FALSE)

CorruptBlock(idx, field) == CorruptUpTo(idx, field, MaxFaults)

\* Blockchain.init / api_load: the ledger is read back from its snapshot
\* file.  The file is the image of the current ledger with one block, genesis
\* included, edited outside the program: its stored hash altered, its
\* prev_hash altered and its hash recomputed, or the signature of its last
\* transaction replaced by another key's.
LoadSnapshot(idx, defect) ==
    LET blk == chain[idx + 1]
        n == Len(blk.transactions)
        relinked == [blk EXCEPT !.prev_hash = ZeroHash]
    IN
    /\ faults < MaxFaults
    /\ idx \in 0..(Len(chain) - 1)
    /\ defect = "link" => idx > 0
    /\ defect = "sig" => (n > 0 /\ blk.transactions[n].signature.kind = "ecdsa")
    /\ chain' = [chain EXCEPT ![idx + 1] =
                    CASE defect = "hash" -> [blk EXCEPT !.hash = ZeroHash]
                      [] defect = "link" ->
                            [relinked EXCEPT !.hash = compute_hash(relinked)]
                      [] OTHER ->
                            [blk EXCEPT !.transactions[n].signature =
                                Sig(OtherKey(blk.transactions[n].requester),
                                    to_signable_dict(blk.transactions[n]))]]
    /\ faults' = faults + 1
    /\ UNCHANGED <<difficulty, mempool, maps, active_buyout_offers, now>>
    /\ UNCHANGED others
    /\ last' = Call("load", TRUE, NoIndex, FALSE)

Next ==
    \/ Tick
    \/ \E tx \in SubmitInputs(now) : Submit(tx)
    \/ \E miner \in {"0a"}, max_txs \in {0, 1} : Mine(miner, max_txs)
    \/ \E txs \in AddBlockInputs(now) : AddBlock(txs)
    \/ IntegrityCheck
    \/ FindBadBlock
    \/ Repair
    \/ \E c \in Candidates(chain, difficulty, now) : ReplaceChain(c)
    \/ \E idx \in 1..MaxChain, field \in {"nonce", "prev_hash", "timestamp"} :
          CorruptBlock(idx, field)
    \/ \E idx \in 0..MaxChain, defect \in {"hash", "link", "sig"} :
          LoadSnapshot(idx, defect)

Spec == Init /\ [][Next]_vars

\* Mining alone: a fresh chain on which callers only submit and mine.  Both
\* users request the item and both mine, so blocks come to carry the
\* synthesized buyout transfer next to user transactions and coinbases.
MaxMined == MaxChain + 1
MaxPending == MaxPool + 1

MineInputs(ts) ==
    {UserTx(k, REQUEST, it, 0, NoKey, k, ts) : k \in UserKeys, it \in Items}

NextMine ==
    \/ Tick
    \/ \E tx \in MineInputs(now) : SubmitTo(tx, MaxPending)
    \/ \E miner \in UserKeys, max_txs \in {0, 1} : MineTo(miner, max_txs, MaxMined)
    \/ IntegrityCheck

MineSpec == Init /\ [][NextMine]_vars

\* Admission alone: what outside callers hand to add_to_mempool while blocks
\* are mined.  REQUESTs and RELEASEs signed by their requester, a small
\* TRANSFER, a BUYOUT_OFFER, and the transactions no caller should get in: a
\* REQUEST signed by somebody else, one never signed, one whose signature
\* field holds a system sentinel, and a COINBASE.
SmallTransfer == ITEM_REQUEST_COST \div 2

PoolInputs(ts) ==
    {UserTx(k, t, it, 0, NoKey, k, ts) : k \in UserKeys, t \in {REQUEST, RELEASE}, it \in Items}
    \cup {UserTx("0a", TRANSFER, it, SmallTransfer, "0b", "0a", ts) : it \in Items}
    \cup {UserTx("0b", BUYOUT_OFFER, it, ITEM_REQUEST_COST, NoKey, "0b", ts) : it \in Items}
    \cup {UserTx("0b", REQUEST, it, 0, NoKey, sg, ts) :
            it \in Items, sg \in {"0a", "unsigned", "BUYOUT_PAYMENT"}}
    \cup {UserTx("0b", COINBASE, it, MINING_REWARD, NoKey, "COINBASE", ts) : it \in Items}

NextPool ==
    \/ \E tx \in PoolInputs(now) : SubmitTo(tx, MaxPending)
    \/ \E miner \in UserKeys, max_txs \in {0, 1} : MineTo(miner, max_txs, MaxMined)

PoolSpec == Init /\ [][NextPool]_vars

\* The item economy: both users mine, request and release the item and one
\* passes the other less than the base cost, over chains long enough for a
\* request, a penalty against it, and the buyout or release that pays the
\* escrow out.
MaxEcon == MaxChain + 2

EconInputs(ts) ==
    {UserTx(k, REQUEST, it, 0, NoKey, k, ts) : k \in UserKeys, it \in Items}
    \cup {UserTx("0a", RELEASE, it, 0, NoKey, "0a", ts) : it \in Items}
    \cup {UserTx("0a", TRANSFER, it, SmallTransfer, "0b", "0a", ts) : it \in Items}

NextEcon ==
    \/ \E tx \in EconInputs(now) : SubmitTo(tx, MaxPending)
    \/ \E miner \in UserKeys, max_txs \in {0, 1} : MineTo(miner, max_txs, MaxEcon)

EconSpec == Init /\ [][NextEcon]_vars

\* ------------------------------------------------------- network actions
\* A connection from address p.address: the ids of one address are used in
\* order.
NextPeer(p) ==
    /\ ~net.peer[p].made
    /\ \A q \in PeerObjs :
          (q.address = p.address /\ q.id < p.id) => net.peer[q].made

\* P2PNetwork._accept_connections: one accepted connection
AcceptConnection(p) ==
    /\ NextPeer(p)
    /\ net' = [net EXCEPT !.registry = RegAdd(@, p), !.peer[p] = Peer]
    /\ UNCHANGED <<ledger, now, last, faults, building, probe, last_ok>>

\* P2PNetwork._connect_peer: dial, register, queue the announce
ConnectPeer(p) ==
    /\ NextPeer(p)
    /\ net' = [net EXCEPT !.registry = RegAdd(@, p),
                          !.peer[p] = peer_send(Peer, Message("peer_announce", 0))]
    /\ UNCHANGED <<ledger, now, last, faults, building, probe, last_ok>>

\* P2PNetwork.broadcast(msg), as announce_new_block calls it
Broadcast(type) ==
    /\ net.broadcasts < MaxBroadcast
    /\ net' = [broadcast(net, Message(type, net.broadcasts + 1)) EXCEPT
                  !.broadcasts = @ + 1]
    /\ last' = Call("broadcast", TRUE, NoIndex, TRUE)
    /\ UNCHANGED <<ledger, now, faults, building, probe, last_ok>>

\* P2PNetwork._send_handler: one turn of the write loop with a message in
\* the queue; sendall succeeds, or raises and the loop is left.
SendHandler(p, sent) ==
    /\ net.peer[p].writer = "run"
    /\ net.peer[p].connected
    /\ Len(net.peer[p].send_queue) > 0
    /\ net' = [net EXCEPT !.peer[p] =
                  [@ EXCEPT !.send_queue = Tail(@),
                            !.writer = IF sent THEN "run" ELSE "stopped"]]
    /\ UNCHANGED <<ledger, now, last, faults, building, probe, last_ok>>

\* P2PNetwork._handle_peer: recv fails or returns nothing; the finally
\* clause enters _disconnect_peer, which takes the peer out of the registry
\* under peers_lock.
ReadFails(p) ==
    /\ net.peer[p].reader = "run"
    /\ net' = [net EXCEPT !.registry = RegDiscard(@, p),
                          !.peer[p].reader = "closing"]
    /\ UNCHANGED <<ledger, now, last, faults, building, probe, last_ok>>

\* P2PNetwork._disconnect_peer, after the lock: peer.close()
ClosePeer(p) ==
    /\ net.peer[p].reader = "closing"
    /\ net' = [net EXCEPT !.peer[p] = [peer_close(@) EXCEPT !.reader = "done"]]
    /\ UNCHANGED <<ledger, now, last, faults, building, probe, last_ok>>

NextNet ==
    \/ \E p \in PeerObjs : AcceptConnection(p)
    \/ \E p \in PeerObjs : ConnectPeer(p)
    \/ \E type \in {"new_block"} : Broadcast(type)
    \/ \E p \in PeerObjs, sent \in BOOLEAN : SendHandler(p, sent)
    \/ \E p \in PeerObjs : ReadFails(p)
    \/ \E p \in PeerObjs : ClosePeer(p)

NetSpec == Init /\ [][NextNet]_vars

\* -------------------------------------------------- blocks from every side
\* network read loop -> on_new_block -> handle_new_block(block_data)
HandleNewBlock(block_data, depth) ==
    LET r == handle_new_block(chain, difficulty, block_data, now)
        t == rebuild_item_tracking(chain')
    IN
    /\ Len(chain) < depth
    /\ chain' = IF r.accepted THEN Append(chain, r.blk) ELSE chain
    /\ IF r.accepted
       THEN /\ item_request_times' = t.request_times
            /\ item_demand_counters' = t.demand_counters
            /\ item_values' = t.values
            /\ item_escrow' = t.escrow
       ELSE UNCHANGED maps
    /\ UNCHANGED <<difficulty, mempool, active_buyout_offers, now, faults>>
    /\ UNCHANGED others
    /\ last' = Call("handle_new_block", r.accepted, block_data.index, ledger' = ledger)

\* One ledger fed from its three sides: the mempool and the miner, callers
\* of add_block, and new-block messages of peers.
MaxBlocks == MaxChain + 2
MaxQueued == MaxPool + 2

BlockPoolInputs(ts) ==
    {UserTx("0a", t, it, 0, NoKey, "0a", ts) : t \in {REQUEST, RELEASE}, it \in Items}
    \cup {UserTx("0a", BUYOUT_OFFER, it, ITEM_REQUEST_COST, NoKey, "0a", ts) : it \in Items}

\* Batches handed to add_block: none, a priced REQUEST of either user, a
\* RELEASE, a REQUEST signed by somebody else, and a RELEASE twice over.
BatchInputs(ts) ==
    {<< >>,
     <<UserTx("0a", REQUEST, "X", ITEM_REQUEST_COST, NoKey, "0a", ts)>>,
     <<UserTx("0b", REQUEST, "X", ITEM_REQUEST_COST, NoKey, "0b", ts)>>,
     <<UserTx("0a", RELEASE, "X", 0, NoKey, "0a", ts)>>,
     <<UserTx("0b", REQUEST, "X", 0, NoKey, "0a", ts)>>,
     <<UserTx("0a", RELEASE, "X", 0, NoKey, "0a", ts),
       UserTx("0a", RELEASE, "X", 0, NoKey, "0a", ts)>>}

\* Blocks a peer announces: its own coinbase alone or with a REQUEST, or a
\* RELEASE, sealed on the local tip at the local length, one short of it or
\* one past it; and the REQUEST block with a forged signature or with a
\* requester key that does not decode.
NewBlockInputs(ch, diff, ts) ==
    LET sealed(idx, txs) == PeerSeal(ch[Len(ch)].hash, idx, txs, ts, diff)
        idxs == {Len(ch) - 1, Len(ch), Len(ch) + 1}
    IN {sealed(idx, PeerTxs(kind, idx, ts)) : idx \in idxs, kind \in {"empty", "req"}}
       \cup {sealed(idx, <<UserTx("0a", RELEASE, "X", 0, NoKey, "0a", ts)>>) : idx \in idxs}
       \cup {TamperBlock(sealed(Len(ch), PeerTxs("req", Len(ch), ts)), t, ts) :
                t \in {"sig", "bad_key"}}

NextBlock ==
    \/ \E tx \in BlockPoolInputs(now) : SubmitTo(tx, MaxQueued)
    \/ \E max_txs \in {0, 1} : MineTo("0a", max_txs, MaxBlocks)
    \/ \E txs \in BatchInputs(now) : AddBlockTo(txs, MaxBlocks)
    \/ \E d \in NewBlockInputs(chain, difficulty, now) : HandleNewBlock(d, MaxBlocks)

BlockSpec == Init /\ [][NextBlock]_vars

\* ------------------------------------------------- two threads, one ledger
\* The menu loop runs on the main thread and handle_new_block on the read
\* loop's thread of a peer; add_block and mine_block take no lock.  Each call
\* is two steps: it validates against the chain it finds and seals
\* Block(len(self.chain), self.last_hash, txs) by proof of work, and later
\* it appends that block and brings the maps up to date.  building[t] holds
\* the sealed block of thread t in between.
Built(op, blk, valid_txs, selected) ==
    <<[op |-> op, blk |-> blk, valid_txs |-> valid_txs, selected |-> selected]>>

\* chain.add_block(txs) of the menu loop, up to the sealed block.
BeginAddBlock(t, txs) ==
    LET r == add_block(chain, difficulty, txs, now) IN
    /\ building[t] = << >>
    /\ Len(chain) < MaxChain
    /\ building' = [building EXCEPT ![t] =
                       IF r.raises THEN << >> ELSE Built("add_block", r.blk, << >>, << >>)]
    /\ last' = Call("add_block", ~r.raises, NoIndex, TRUE)
    /\ UNCHANGED <<ledger, now, faults, net, probe, last_ok>>

\* handle_new_block(block_data) on the read loop's thread, up to the sealed
\* block.
BeginHandle(t, block_data) ==
    LET r == handle_new_block(chain, difficulty, block_data, now) IN
    /\ building[t] = << >>
    /\ Len(chain) < MaxChain
    /\ building' = [building EXCEPT ![t] =
                       IF r.accepted THEN Built("handle_new_block", r.blk, << >>, << >>)
                       ELSE << >>]
    /\ last' = Call("handle_new_block", r.accepted, block_data.index, TRUE)
    /\ UNCHANGED <<ledger, now, faults, net, probe, last_ok>>

\* chain.mine_block(miner_pubkey), up to the sealed block.
BeginMine(t, miner_pubkey, max_txs) ==
    LET tr == [request_times |-> item_request_times,
               demand_counters |-> item_demand_counters,
               values |-> item_values, escrow |-> item_escrow]
        r == mine_block(chain, difficulty, mempool, tr, miner_pubkey, max_txs, now)
    IN
    /\ building[t] = << >>
    /\ Len(chain) < MaxChain
    /\ building' = [building EXCEPT ![t] =
                       Built("mine_block", r.blk, SubSeq(r.blk.transactions, 2,
                                                        Len(r.blk.transactions)),
                             txs_to_mine(mempool, max_txs))]
    /\ last' = Call("mine_block", TRUE, NoIndex, TRUE)
    /\ UNCHANGED <<ledger, now, faults, net, probe, last_ok>>

\* self.chain.append(blk) and what follows it: _rebuild_item_tracking() in
\* add_block, the tracking loop and the mempool removal in mine_block.
FinishAppend(t) ==
    LET b == building[t][1]
        tr == [request_times |-> item_request_times,
               demand_counters |-> item_demand_counters,
               values |-> item_values, escrow |-> item_escrow]
        after == IF b.op = "mine_block" THEN TrackLoop(tr, b.valid_txs, 1)
                 ELSE rebuild_item_tracking(chain')
    IN
    /\ building[t] # << >>
    /\ chain' = Append(chain, b.blk)
    /\ item_request_times' = after.request_times
    /\ item_demand_counters' = after.demand_counters
    /\ item_values' = after.values
    /\ item_escrow' = after.escrow
    /\ mempool' = IF b.op = "mine_block" THEN RemoveAll(mempool, b.selected) ELSE mempool
    /\ building' = [building EXCEPT ![t] = << >>]
    /\ last' = Call("append", TRUE, b.blk.index, FALSE)
    /\ UNCHANGED <<difficulty, active_buyout_offers, now, faults, net, probe, last_ok>>

\* The menu's batches (amounts left at 0.0): a REQUEST, and the empty list
\* of a multiple request without ids.
MenuInputs(ts) == {<< >>, <<UserTx("0a", REQUEST, "X", 0, NoKey, "0a", ts)>>}

\* A peer's blocks sealed on the local tip, at the local length and one past.
RaceBlockInputs(ch, diff, ts) ==
    {PeerSeal(ch[Len(ch)].hash, idx, PeerTxs(kind, idx, ts), ts, diff) :
        idx \in {Len(ch), Len(ch) + 1}, kind \in {"empty", "req"}}

NextRace ==
    \/ \E txs \in MenuInputs(now) : BeginAddBlock("menu", txs)
    \/ BeginMine("menu", "0a", 0)
    \/ \E d \in RaceBlockInputs(chain, difficulty, now) : BeginHandle("peer", d)
    \/ \E t \in Threads : FinishAppend(t)

RaceSpec == Init /\ [][NextRace]_vars

\* ------------------------------------------------------ signing by a caller
\* A caller builds a transaction of one of the user kinds and signs it with
\* the private key of its requester (main.py: Transaction(pub_key, uid,
\* tx_type=...) then tx.sign(priv_key)); `signed` keeps the object as it was
\* when signed.
NewTransaction(k, tx_type, uid, ts) ==
    LET tx == sign(Transaction(k, uid, tx_type, ts, NoSig, 0, NoKey, NoOffer), k) IN
    /\ probe = << >>
    /\ probe' = <<[tx |-> tx, signed |-> tx]>>
    /\ last' = Call("sign", TRUE, NoIndex, TRUE)
    /\ UNCHANGED <<ledger, now, faults, building, net, last_ok>>

\* The values an attribute of the object can be set to afterwards.
FieldValues(field) ==
    CASE field = "requester" -> {"0a", "0b", "0A"}
      [] field = "uid" -> {ItemUid("X"), ItemUid("Y")}
      [] field = "tx_type" -> {COINBASE, REQUEST, RELEASE, TRANSFER, BUYOUT_OFFER}
      [] field = "timestamp" -> 1..MaxTime
      [] field = "amount" -> {0, ITEM_REQUEST_COST}
      [] OTHER -> {NoKey, "0b"}

\* tx.<field> = value
SetField(field, value) ==
    /\ probe # << >>
    /\ probe[1].tx[field] # value
    /\ probe' = <<[probe[1] EXCEPT !.tx[field] = value]>>
    /\ last' = Call("setattr", TRUE, NoIndex, TRUE)
    /\ UNCHANGED <<ledger, now, faults, building, net, last_ok>>

\* tx.verify()
VerifyProbe ==
    /\ probe # << >>
    /\ last' = [Call("verify", verify(probe[1].tx) = True, NoIndex, TRUE) EXCEPT
                  !.raised = verify(probe[1].tx) = Raise]
    /\ UNCHANGED <<ledger, now, faults, others>>

NextSign ==
    \/ \E k \in UserKeys, tx_type \in {REQUEST, RELEASE, TRANSFER, BUYOUT_OFFER},
          uid \in {ItemUid("X"), ItemUid("Y")}, ts \in 1..MaxTime :
          NewTransaction(k, tx_type, uid, ts)
    \/ \E field \in {"requester", "uid", "tx_type", "timestamp", "amount", "recipient"} :
          \E value \in FieldValues(field) : SetField(field, value)
    \/ VerifyProbe

SignSpec == Init /\ [][NextSign]_vars

\* ------------------------------------------------------- frames from a peer
\* One line read from a peer's socket: not JSON at all, a JSON envelope
\* without 'type', one whose type is no MessageType, or a well-formed
\* new_block message with its block dict.
Frame(kind, payload) == [kind |-> kind, payload |-> payload]

Frames(ch, diff, ts) ==
    {Frame(kind, << >>) : kind \in {"not_json", "no_type", "bad_type"}}
    \cup {Frame("new_block", <<d>>) : d \in RaceBlockInputs(ch, diff, ts)}

\* from_json that reports every malformed line as an envelope error.
from_json_strict(frame) ==
    IF frame.kind = "new_block" THEN "ok" ELSE "ValueError"

\* Message.from_json(line): what it raises, or "ok".
from_json(frame) ==
    CASE frame.kind = "not_json" -> "JSONDecodeError"
      [] frame.kind = "no_type" -> "KeyError"
      [] frame.kind = "bad_type" -> "ValueError"
      [] OTHER -> "ok"

\* P2PNetwork._handle_peer, one line of the read loop.  A JSONDecodeError is
\* passed over; any other exception leaves the loop and the finally clause
\* enters _disconnect_peer; a new_block message goes to handle_new_block.
ReceiveFrame(p, frame) ==
    LET outcome == from_json(frame)
        r == handle_new_block(chain, difficulty, frame.payload[1], now)
        t == rebuild_item_tracking(chain')
        appended == outcome = "ok" /\ r.accepted
    IN
    /\ net.peer[p].reader = "run"
    /\ outcome = "ok" => Len(chain) < MaxChain
    /\ net' = IF outcome \in {"ok", "JSONDecodeError"} THEN net
              ELSE [net EXCEPT !.registry = RegDiscard(@, p),
                               !.peer[p].reader = "closing"]
    /\ chain' = IF appended THEN Append(chain, r.blk) ELSE chain
    /\ IF appended
       THEN /\ item_request_times' = t.request_times
            /\ item_demand_counters' = t.demand_counters
            /\ item_values' = t.values
            /\ item_escrow' = t.escrow
       ELSE UNCHANGED maps
    /\ UNCHANGED <<difficulty, mempool, active_buyout_offers, now, faults, building, probe, last_ok>>
    /\ last' = Call(IF outcome = "ok" THEN "handle_new_block" ELSE "recv",
                    IF outcome = "ok" THEN r.accepted ELSE outcome = "JSONDecodeError",
                    NoIndex, ledger' = ledger)

NextFrame ==
    \/ \E p \in PeerObjs : AcceptConnection(p)
    \/ \E p \in PeerObjs : \E frame \in Frames(chain, difficulty, now) : ReceiveFrame(p, frame)
    \/ \E p \in PeerObjs : ClosePeer(p)

FrameSpec == Init /\ [][NextFrame]_vars

\* ------------------------------------------------- a transaction kept in hand
\* add_to_mempool writes the amount it computes into the Transaction object
\* it was given (tx.amount = ...) and appends that object; mine_block puts
\* the same object into the block.  A caller that kept the object of a mined
\* transaction and hands it to add_to_mempool again has the amount written
\* into the object that sits in the chain.  The object at position j of block
\* i is told apart from every other one by what it signs.
SameObject(a, b) ==
    /\ a.requester = b.requester /\ a.uid = b.uid
    /\ a.tx_type = b.tx_type /\ a.timestamp = b.timestamp

Resubmit(i, j, cap) ==
    LET tx == chain[i + 1].transactions[j]
        r == add_to_mempool(chain, mempool, item_values, item_demand_counters, tx)
        admitted == [tx EXCEPT !.amount = r.amount]
    IN
    /\ i \in 1..(Len(chain) - 1)
    /\ j \in 1..Len(chain[i + 1].transactions)
    /\ tx.signature.kind = "ecdsa"
    /\ \A m \in 1..Len(chain) : \A n \in 1..Len(chain[m].transactions) :
          SameObject(chain[m].transactions[n], tx) => (m = i + 1 /\ n = j)
    /\ \A n \in 1..Len(mempool) : ~SameObject(mempool[n], tx)
    /\ Len(mempool) < cap
    /\ chain' = IF r.ok THEN [chain EXCEPT ![i + 1].transactions[j] = admitted] ELSE chain
    /\ mempool' = IF r.ok THEN Append(mempool, admitted) ELSE mempool
    /\ active_buyout_offers' =
          IF r.ok /\ tx.tx_type = BUYOUT_OFFER
          THEN Put(active_buyout_offers, tx.uid,
                   Append(Get(active_buyout_offers, tx.uid, << >>), admitted))
          ELSE active_buyout_offers
    /\ UNCHANGED <<difficulty, maps, now, faults>>
    /\ UNCHANGED others
    /\ last' = [Call("add_to_mempool", r.ok, i, ledger' = ledger) EXCEPT
                  !.raised = r.raises]

NextKept ==
    \/ \E tx \in EconInputs(now) : SubmitTo(tx, MaxPending)
    \/ \E miner \in UserKeys, max_txs \in {0, 1} : MineTo(miner, max_txs, MaxMined)
    \/ \E i \in 1..MaxMined, j \in 1..(MaxPending + 2) : Resubmit(i, j, MaxPending)

KeptSpec == Init /\ [][NextKept]_vars

\* ------------------------------------------------------ integrity monitor
\* One pass of blockchain_monitor's loop (src/main.py 44-58, the same loop
\* as integrity_monitor of src/peer_ui.py): integrity_check(), and only when the
\* status differs from the one of the pass before (or there was none) the
\* report, repair() on a bad chain, and last_ok = cur_ok.
MonitorTick ==
    LET cur_ok == integrity_check(chain) = True
        toggled == last_ok = << >> \/ last_ok[1] # cur_ok
        repairs == toggled /\ ~cur_ok
        bad_idx == find_bad_block(chain)
    IN
    /\ integrity_check(chain) # Raise
    /\ repairs => bad_idx # RaiseIndex
    /\ chain' = IF repairs /\ RepairNeeded(bad_idx) THEN repair_chain(chain, bad_idx)
                ELSE chain
    /\ last_ok' = IF toggled THEN <<cur_ok>> ELSE last_ok
    /\ UNCHANGED <<difficulty, mempool, maps, active_buyout_offers, now, faults,
                   building, net, probe>>
    /\ last' = Call("monitor", repairs, IF repairs THEN bad_idx ELSE NoIndex,
                    ledger' = ledger)

\* A node that mines, with its monitor thread running, while stored blocks
\* past genesis are overwritten a bounded number of times.  The monitor
\* thread loops for ever (while True ... time.sleep(interval)), so its pass
\* is taken again and again.
MaxCorruptions == MaxFaults + 1

NextMonitor ==
    \/ \E miner \in UserKeys : MineTo(miner, 0, MaxMined)
    \/ \E idx \in 1..MaxChain, field \in {"nonce", "prev_hash", "timestamp"} :
          CorruptUpTo(idx, field, MaxCorruptions)
    \/ MonitorTick

MonitorSpec == Init /\ [][NextMonitor]_vars /\ WF_vars(MonitorTick)

\* Transfers alone: each user hands add_to_mempool a signed TRANSFER to the
\* other, of an amount the caller chose freely (Transaction takes any float:
\* below zero, zero, above zero), while both mine.
TransferAmounts == {0 - SmallTransfer, 0, SmallTransfer}

TransferInputs(ts) ==
    {UserTx(k, TRANSFER, it, a, OtherKey(k), k, ts) :
        k \in UserKeys, it \in Items, a \in TransferAmounts}

NextTransfer ==
    \/ Tick
    \/ \E tx \in TransferInputs(now) : SubmitTo(tx, MaxPending)
    \/ \E miner \in UserKeys : MineTo(miner, 0, MaxMined)

TransferSpec == Init /\ [][NextTransfer]_vars

\* ------------------------------------------------------------------ claims
\* The 1-based position i of ch holds a block that fails the hash check, the
\* linkage check or the signature check.
BlockBad(ch, i) ==
    \/ ch[i].hash # compute_hash(ch[i])
    \/ (i > 1 /\ ch[i].prev_hash # ch[i - 1].hash)
    \/ \E j \in 1..Len(ch[i].transactions) : verify(ch[i].transactions[j]) # True

\* The smallest 0-based index of a failing block, NoIndex when there is none.
FirstBad(ch) ==
    IF \A i \in 1..Len(ch) : ~BlockBad(ch, i) THEN NoIndex
    ELSE (CHOOSE i \in 1..Len(ch) :
             BlockBad(ch, i) /\ \A j \in 1..(i - 1) : ~BlockBad(ch, j)) - 1

C2_RejectedCandidateLeavesLedger ==
    (last.op = "replace_chain" /\ ~last.ret) => last.kept

\* C2 witness: a strictly longer candidate that rebuilt but failed
\* verification was refused while a transaction was pending.
C2_Witness ==
    /\ last.op = "replace_chain"
    /\ ~last.ret
    /\ last.longer
    /\ last.rebuilt
    /\ Len(mempool) > 0
    /\ Len(chain) > 1

C4_AsStated ==
    faults = 0 =>
        \A i \in 2..Len(chain) :
            /\ chain[i].hash = compute_hash(chain[i])
            /\ MeetsTarget(chain[i].hash, difficulty)

\* C5: with no outside corruption, and right after a repair that truncated,
\* every non-genesis block's prev_hash is the stored hash of the block before
\* it.
C5_Linkage ==
    (faults = 0 \/ (last.op = "repair" /\ last.ret)) =>
        \A i \in 2..Len(chain) : chain[i].prev_hash = chain[i - 1].hash

\* C5 witness: an uncorrupted chain of full length whose last block came in
\* through replace_chain.
C5_Witness ==
    /\ faults = 0
    /\ last.op = "replace_chain"
    /\ last.ret
    /\ Len(chain) = MaxChain

\* C6 as stated: with no outside corruption, the block at position i of the
\* live chain has index i.
C6_AsStated ==
    faults = 0 => \A i \in 1..Len(chain) : chain[i].index = i - 1

\* C7: find_bad_block returns the smallest index whose block fails the hash,
\* linkage or signature check, and None exactly when integrity_check is true;
\* neither call changes the ledger, and what each returned is what it returns
\* when called again.
C7_FindBadBlockIsFirstBad ==
    /\ find_bad_block(chain) = FirstBad(chain)
    /\ (find_bad_block(chain) = NoIndex) <=> (integrity_check(chain) = True)
    /\ last.op \in {"integrity_check", "find_bad_block"} => last.kept
    /\ last.op = "find_bad_block" => last.idx = find_bad_block(chain)
    /\ last.op = "integrity_check" => (last.ret <=> integrity_check(chain) = True)

\* C7 witness: find_bad_block answered 1 on a chain whose blocks 1 and 2 both
\* fail.
C7_Witness ==
    /\ last.op = "find_bad_block"
    /\ last.idx = 1
    /\ Len(chain) = 3
    /\ BlockBad(chain, 2)
    /\ BlockBad(chain, 3)

\* C8: when the first bad block is at index k >= 1, repair returns true and
\* leaves the blocks 0..k-1 (length k), each as it was, and integrity_check is
\* true afterwards.
C8_RepairTruncates ==
    (last.op = "repair" /\ last.idx >= 1) =>
        /\ last.ret
        /\ Len(chain) = last.idx
        /\ last.prefix
        /\ integrity_check(chain) = True
        /\ find_bad_block(chain) = NoIndex

\* C8 witness: a repair cut a three-block chain at its bad block 2.
C8_Witness ==
    /\ last.op = "repair"
    /\ last.idx = 2
    /\ last.ret
    /\ Len(chain) = 2

\* C9 as stated: whenever find_bad_block finds a bad block, genesis included,
\* repair returns true and integrity_check is true afterwards.
C9_AsStated ==
    (last.op = "repair" /\ last.idx # NoIndex) =>
        /\ last.ret
        /\ integrity_check(chain) = True

\* C10: on a chain that passes integrity_check, repair returns false and
\* leaves the chain, the mempool and the per-item maps unchanged.
C10_RepairOnSoundChain ==
    (last.op = "repair" /\ last.was_sound) =>
        /\ ~last.ret
        /\ last.kept

\* C10 witness: repair was called on a sound chain with a mined block, a
\* pending transaction and a tracked item.
C10_Witness ==
    /\ last.op = "repair"
    /\ last.was_sound
    /\ ~last.ret
    /\ Len(chain) > 1
    /\ Len(mempool) > 0
    /\ item_values # EmptyDict

\* The signature of tx is one made with its requester's key over its
\* signable fields.
RealSignature(tx) ==
    /\ tx.signature.kind = "ecdsa"
    /\ tx.signature.signer = deserialize_pubkey(tx.requester)
    /\ tx.signature.payload = to_signable_dict(tx)

\* C11 as stated: every pending transaction is not a COINBASE and carries a
\* signature made with its requester's key over its signable fields; every
\* refusal is a return of false that leaves the mempool as it was.
C11_AsStated ==
    /\ \A i \in 1..Len(mempool) :
          mempool[i].tx_type # COINBASE /\ RealSignature(mempool[i])
    /\ last.op = "add_to_mempool" =>
          /\ ~last.raised
          /\ ~last.ret => last.kept

\* C12 as stated: no pending transaction has a system sentinel in its
\* signature field.
C12_AsStated ==
    \A i \in 1..Len(mempool) : mempool[i].signature.kind \notin SentinelKinds

\* Who holds the item when pool[i] is reached: the requester of the latest
\* earlier pending REQUEST that takes the item, else its holder on chain.
RECURSIVE PendingHolder(_, _, _, _)
PendingHolder(ch, pool, i, uid) ==
    IF i = 0 THEN HolderFrom(ch, Len(ch), uid)
    ELSE IF pool[i].tx_type = REQUEST /\ pool[i].uid = uid
            /\ pool[i].amount >= ITEM_REQUEST_COST
         THEN pool[i].requester
         ELSE PendingHolder(ch, pool, i - 1, uid)

\* C13 as stated: a pending RELEASE is one by the holder of its item.
C13_AsStated ==
    \A i \in 1..Len(mempool) :
        mempool[i].tx_type = RELEASE =>
            mempool[i].requester = PendingHolder(chain, mempool, i - 1, mempool[i].uid)

\* C14: add_to_mempool refuses a transaction when one of the same uid and
\* kind is pending, whoever requested it, unless it is a BUYOUT_OFFER, which
\* the duplicate does not stop; so the mempool never holds two non-offer
\* transactions of the same uid and kind.
C14_NoDuplicatePending ==
    [][/\ \A i, j \in 1..Len(mempool') :
             (i < j /\ mempool'[i].uid = mempool'[j].uid
                    /\ mempool'[i].tx_type = mempool'[j].tx_type)
                => mempool'[i].tx_type = BUYOUT_OFFER
       /\ \A tx \in PoolInputs(now) :
             (SubmitTo(tx, MaxPending)
              /\ \E i \in 1..Len(mempool) :
                    mempool[i].uid = tx.uid /\ mempool[i].tx_type = tx.tx_type)
                => IF tx.tx_type = BUYOUT_OFFER
                   THEN last'.ret <=>
                          (tx.uid \in ProvisionalAlloc(mempool, 1, allocation(chain))
                           /\ get_balance(chain, tx.requester)
                              + ProvisionalDelta(mempool, 1, tx.requester) >= tx.amount)
                   ELSE ~last'.ret /\ mempool' = mempool]_vars

\* C14 witness: a REQUEST of the item by one user is pending and the other
\* user's REQUEST of it has just been refused.
C14_Witness ==
    /\ last.op = "add_to_mempool"
    /\ ~last.ret
    /\ ~last.raised
    /\ Len(mempool) = 1
    /\ mempool[1].tx_type = REQUEST
    /\ mempool[1].requester = "0a"
    /\ get_balance(chain, "0b") >= MINING_REWARD

\* The result of add_to_mempool(tx) in this step is: admitted with the given
\* amount, or refused with the mempool as it was.
AdmittedWith(tx, amount) ==
    /\ last'.ret
    /\ mempool' = Append(mempool, [tx EXCEPT !.amount = amount])
Refused ==
    /\ ~last'.ret
    /\ mempool' = mempool

\* The REQUEST table: not held, admit iff the balance covers the base cost,
\* at the base cost; held and the balance covers the value, admit at the
\* value; held otherwise, admit iff the balance covers the penalty, at the
\* penalty.
RequestTable(tx, held, balance) ==
    LET v == Get(item_values, tx.uid, ITEM_REQUEST_COST)
        d == Get(item_demand_counters, tx.uid, 0)
        pen == (v * (BASE_DEMAND_PERCENTAGE + d * DEMAND_INCREMENT)) \div PercentScale
    IN IF ~held
       THEN IF balance >= ITEM_REQUEST_COST
            THEN AdmittedWith(tx, ITEM_REQUEST_COST) ELSE Refused
       ELSE IF balance >= v THEN AdmittedWith(tx, v)
       ELSE IF balance >= pen THEN AdmittedWith(tx, pen)
       ELSE Refused

\* The requester's chain balance with its pending transactions applied.
ProvisionalBalance(requester) ==
    get_balance(chain, requester) + ProvisionalDelta(mempool, 1, requester)

\* C15 (as the code has it): a REQUEST that verify() accepts and that finds
\* no REQUEST of its item pending is classed by the table, the item being
\* held when it is allocated on chain and no RELEASE of it is pending; any
\* other REQUEST is refused or raises, and the mempool is as it was.
C15_RequestClassified ==
    [][\A tx \in PoolInputs(now) :
          (tx.tx_type = REQUEST /\ SubmitTo(tx, MaxPending)) =>
              IF verify(tx) = True
                 /\ ~\E i \in 1..Len(mempool) :
                        mempool[i].tx_type = REQUEST /\ mempool[i].uid = tx.uid
              THEN RequestTable(tx,
                       tx.uid \in allocation(chain)
                       /\ ~\E i \in 1..Len(mempool) :
                             mempool[i].tx_type = RELEASE /\ mempool[i].uid = tx.uid,
                       ProvisionalBalance(tx.requester))
              ELSE Refused]_vars

\* C15 witness: the REQUEST just admitted is priced at a penalty computed at
\* demand count 1.
C15_Witness ==
    /\ last.op = "add_to_mempool"
    /\ last.ret
    /\ Len(mempool) > 0
    /\ mempool[Len(mempool)].tx_type = REQUEST
    /\ mempool[Len(mempool)].amount < ITEM_REQUEST_COST
    /\ Get(item_demand_counters, mempool[Len(mempool)].uid, 0) = 1

\* C15 as stated: every REQUEST that verify() accepts is classed by the
\* table, the item being held when the chain and the pending transactions
\* together allocate it.
C15_AsStated ==
    [][\A tx \in PoolInputs(now) :
          (tx.tx_type = REQUEST /\ verify(tx) = True /\ SubmitTo(tx, MaxPending)) =>
              RequestTable(tx,
                  tx.uid \in ProvisionalAlloc(mempool, 1, allocation(chain)),
                  ProvisionalBalance(tx.requester))]_vars

\* A mine_block step and the block it appended: its transactions, the
\* coinbase amount that went to key k, and the change of k's balance as
\* get_balance derives it from the chain.
Mined == last'.op = "mine_block" /\ Len(chain') = Len(chain) + 1
MinedTxs == chain'[Len(chain')].transactions
CoinbaseTo(k) == IF MinedTxs[1].requester = k THEN MinedTxs[1].amount ELSE 0
BalanceChange(k) == get_balance(chain', k) - get_balance(chain, k)

\* Position j of the mined block holds the only transaction of the block
\* that came from the mempool.
SoleUserTx(j) ==
    /\ j \in 2..Len(MinedTxs)
    /\ MinedTxs[j].signature.kind \notin SentinelKinds
    /\ \A i \in 2..Len(MinedTxs) :
          i # j => MinedTxs[i].signature.kind \in SentinelKinds

\* Position j of the mined block holds the only transaction of the block,
\* synthesized ones aside, that is about its item.
SoleOnItem(j) ==
    /\ j \in 2..Len(MinedTxs)
    /\ MinedTxs[j].signature.kind \notin SentinelKinds
    /\ \A i \in 2..Len(MinedTxs) :
          (i # j /\ MinedTxs[i].signature.kind \notin SentinelKinds)
             => MinedTxs[i].uid # MinedTxs[j].uid

\* Before the step: who holds the item, its value, its escrow, its demand.
HolderOf(uid) == HolderFrom(chain, Len(chain), uid)
ValueOf(uid) == Get(item_values, uid, ITEM_REQUEST_COST)
EscrowOf(uid) == Get(item_escrow, uid, 0)
DemandOf(uid) == Get(item_demand_counters, uid, 0)

\* The mined transaction at j is a buyout: a REQUEST of an item somebody else
\* holds, priced at the item's value or more.
IsBuyout(j) ==
    /\ MinedTxs[j].tx_type = REQUEST
    /\ MinedTxs[j].uid \in allocation(chain)
    /\ MinedTxs[j].amount >= ValueOf(MinedTxs[j].uid)
    /\ HolderOf(MinedTxs[j].uid) \notin {NoKey, MinedTxs[j].requester}

\* The mined transaction at j is a penalty: a REQUEST of a held item priced
\* below the item's value.
IsPenalty(j) ==
    /\ MinedTxs[j].tx_type = REQUEST
    /\ MinedTxs[j].uid \in allocation(chain)
    /\ MinedTxs[j].amount < ValueOf(MinedTxs[j].uid)

\* The mined transaction at j is a regular REQUEST of a free item.
IsRegular(j) ==
    /\ MinedTxs[j].tx_type = REQUEST
    /\ MinedTxs[j].uid \notin allocation(chain)

\* C16 as stated: when a buyout of an item of value v without escrow is the
\* one pending transaction mined, the buyer holds the item afterwards, the
\* buyer's chain-derived balance is down by exactly v and the previous
\* holder's up by exactly v, the coinbase of whoever mined aside.
C16_AsStated ==
    [][\A j \in 2..Len(chain'[Len(chain')].transactions) :
          (Mined /\ SoleUserTx(j) /\ IsBuyout(j) /\ EscrowOf(MinedTxs[j].uid) = 0) =>
              LET uid == MinedTxs[j].uid
                  buyer == MinedTxs[j].requester
              IN /\ HolderFrom(chain', Len(chain'), uid) = buyer
                 /\ BalanceChange(buyer) = CoinbaseTo(buyer) - ValueOf(uid)
                 /\ BalanceChange(HolderOf(uid)) = CoinbaseTo(HolderOf(uid)) + ValueOf(uid)]_vars

\* C17 as stated: when the holder's RELEASE of an item with escrow e > 0,
\* priced at the item's value, is the one pending transaction mined, the
\* holder's chain-derived balance is
\* up by the item's value plus the holder's share of e, the coinbase is the
\* reward plus the miner's share of e, and the item has no escrow afterwards.
C17_AsStated ==
    [][\A j \in 2..Len(chain'[Len(chain')].transactions) :
          (Mined /\ SoleUserTx(j)
           /\ MinedTxs[j].tx_type = RELEASE
           /\ MinedTxs[j].uid \in allocation(chain)
           /\ MinedTxs[j].requester = HolderOf(MinedTxs[j].uid)
           /\ MinedTxs[j].amount = ValueOf(MinedTxs[j].uid)
           /\ EscrowOf(MinedTxs[j].uid) > 0) =>
              LET uid == MinedTxs[j].uid
                  holder == MinedTxs[j].requester
              IN /\ BalanceChange(holder) =
                       CoinbaseTo(holder) + ValueOf(uid)
                       + EscrowShare(EscrowOf(uid), HOLDER_ESCROW_PERCENTAGE)
                 /\ MinedTxs[1].amount =
                       MINING_REWARD + EscrowShare(EscrowOf(uid), MINER_ESCROW_PERCENTAGE)
                 /\ Get(item_escrow', uid, 0) = 0]_vars

\* C18 as stated: when a buyout of an item with escrow e > 0 is the one
\* pending transaction mined, the previous holder's chain-derived balance is
\* up by the payment plus the holder's share of e, the coinbase is the reward
\* plus the miner's share of e, and no transaction of the block takes the
\* holder's share from the miner.
C18_AsStated ==
    [][\A j \in 2..Len(chain'[Len(chain')].transactions) :
          (Mined /\ SoleUserTx(j) /\ IsBuyout(j) /\ EscrowOf(MinedTxs[j].uid) > 0) =>
              LET uid == MinedTxs[j].uid
                  holder == HolderOf(uid)
              IN /\ BalanceChange(holder) =
                       CoinbaseTo(holder) + MinedTxs[j].amount
                       + EscrowShare(EscrowOf(uid), HOLDER_ESCROW_PERCENTAGE)
                 /\ MinedTxs[1].amount =
                       MINING_REWARD + EscrowShare(EscrowOf(uid), MINER_ESCROW_PERCENTAGE)
                 /\ \A i \in 2..Len(MinedTxs) :
                       MinedTxs[i].signature = Sentinel("ESCROW_DISTRIBUTION")
                          => MinedTxs[i].requester # MinedTxs[1].requester]_vars

C20_RegularRequestMined ==
    [][\A j \in 2..Len(chain'[Len(chain')].transactions) :
          (Mined /\ SoleOnItem(j) /\ IsRegular(j)) =>
              LET uid == MinedTxs[j].uid
                  requester == MinedTxs[j].requester
              IN /\ uid \in allocation(chain')
                 /\ HolderFrom(chain', Len(chain'), uid) = requester
                 /\ uid \in DOMAIN item_values'
                 /\ item_values'[uid] = ITEM_REQUEST_COST
                 /\ uid \in DOMAIN item_demand_counters'
                 /\ item_demand_counters'[uid] = 0
                 /\ SoleUserTx(j) =>
                       BalanceChange(requester) = CoinbaseTo(requester) - ITEM_REQUEST_COST]_vars

\* C20 witness: the block just mined by the other user holds one regular
\* REQUEST, and its requester, who had one mining reward, is left with the
\* reward less the base cost and holds the item.
C20_Witness ==
    /\ last.op = "mine_block"
    /\ Len(chain[Len(chain)].transactions) = 2
    /\ LET tx == chain[Len(chain)].transactions[2] IN
          /\ tx.tx_type = REQUEST
          /\ tx.amount = ITEM_REQUEST_COST
          /\ chain[Len(chain)].transactions[1].requester # tx.requester
          /\ get_balance(chain, tx.requester) = MINING_REWARD - ITEM_REQUEST_COST
          /\ allocation(chain) = {tx.uid}
          /\ HolderFrom(chain, Len(chain), tx.uid) = tx.requester
          /\ Get(item_values, tx.uid, 0) = ITEM_REQUEST_COST

\* C29: a broadcast appends the message, once, to the outbound queue of
\* every Peer that is in the registry and connected at that moment and to no
\* other queue, whatever the state of any peer's writer; no queue ever holds
\* the same message twice.
C29_BroadcastFansOut ==
    [][/\ net'.broadcasts = net.broadcasts + 1 =>
             \A p \in PeerObjs :
                 net'.peer[p].send_queue =
                    IF p \in net.registry /\ net.peer[p].connected
                    THEN Append(net.peer[p].send_queue,
                                [type |-> "new_block", sender |-> "self",
                                 seq |-> net.broadcasts + 1])
                    ELSE net.peer[p].send_queue
       /\ \A p \in PeerObjs :
             \A i, j \in 1..Len(net'.peer[p].send_queue) :
                 i < j => net'.peer[p].send_queue[i] # net'.peer[p].send_queue[j]]_vars

\* C29 witness: the latest broadcast is in the queue of a registered peer
\* whose writer has stopped on a failed send, and in the queue of a peer at
\* another address as well.
C29_Witness ==
    /\ net.broadcasts > 0
    /\ \E p, q \in net.registry :
          /\ p.address # q.address
          /\ net.peer[p].writer = "stopped"
          /\ net.peer[p].connected
          /\ \E i \in 1..Len(net.peer[p].send_queue) :
                net.peer[p].send_queue[i].seq = net.broadcasts
          /\ \E i \in 1..Len(net.peer[q].send_queue) :
                net.peer[q].send_queue[i].seq = net.broadcasts

\* C30: once the read loop of a peer has seen a failed or empty read the
\* peer is out of the registry, and once its disconnect is complete its
\* socket is closed, it is not connected, it never comes back into the
\* registry and no step adds a message to its queue.
C30_DisconnectedPeerDropped ==
    [][\A p \in PeerObjs :
          /\ net'.peer[p].reader \in {"closing", "done"} => p \notin net'.registry
          /\ net.peer[p].reader = "done" =>
                /\ ~net.peer[p].socket
                /\ ~net.peer[p].connected
                /\ net'.peer[p].send_queue = net.peer[p].send_queue]_vars

\* C30 witness: a peer that got the first broadcast has disconnected, and the
\* second broadcast is in the queue of the peer at the other address and not
\* in its own.
C30_Witness ==
    /\ net.broadcasts = 2
    /\ \E p \in PeerObjs, q \in net.registry :
          /\ p.address # q.address
          /\ net.peer[p].reader = "done"
          /\ \E i \in 1..Len(net.peer[p].send_queue) : net.peer[p].send_queue[i].seq = 1
          /\ \A i \in 1..Len(net.peer[p].send_queue) : net.peer[p].send_queue[i].seq # 2
          /\ \E i \in 1..Len(net.peer[q].send_queue) : net.peer[q].send_queue[i].seq = 2

\* C28 as stated: verify() of a transaction a user signed succeeds exactly
\* when its requester, uid, kind and timestamp are the ones that were
\* signed, whatever its amount and recipient are by then.
C28_AsStated ==
    last.op = "verify" =>
        /\ ~last.raised
        /\ last.ret <=> /\ probe[1].tx.requester = probe[1].signed.requester
                        /\ probe[1].tx.uid = probe[1].signed.uid
                        /\ probe[1].tx.tx_type = probe[1].signed.tx_type
                        /\ probe[1].tx.timestamp = probe[1].signed.timestamp

\* C21 as stated: mine_block called with an empty mempool appends no block
\* and leaves the chain and the derived maps as they were.
C21_AsStated ==
    [][(mempool = << >> /\ last'.op = "mine_block")
          => (chain' = chain /\ maps' = maps)]_vars

\* The item of the mined transaction at j is held when the loop reaches it:
\* nothing about it earlier in the block and allocated on the chain, or the
\* latest earlier transaction about it a REQUEST.
HeldBefore(j) ==
    LET earlier == {i \in 2..(j - 1) :
                      /\ MinedTxs[i].uid = MinedTxs[j].uid
                      /\ MinedTxs[i].tx_type \in {REQUEST, RELEASE}}
    IN IF earlier = {} THEN MinedTxs[j].uid \in allocation(chain)
       ELSE MinedTxs[CHOOSE i \in earlier : \A k \in earlier : k <= i].tx_type = REQUEST

\* The escrow the mined transaction at j pays out: a RELEASE and a buyout pay
\* out the escrow recorded for their item.
EscrowPaidBy(j) ==
    IF \/ MinedTxs[j].tx_type = RELEASE
       \/ /\ MinedTxs[j].tx_type = REQUEST
          /\ HeldBefore(j)
          /\ MinedTxs[j].amount >= ValueOf(MinedTxs[j].uid)
    THEN EscrowOf(MinedTxs[j].uid)
    ELSE 0

RECURSIVE MinerEscrow(_)
MinerEscrow(j) ==
    IF j < 2 THEN 0
    ELSE MinerEscrow(j - 1) + (EscrowPaidBy(j) * MINER_ESCROW_PERCENTAGE) \div PercentScale

\* C22: every block mine_block appends holds exactly one COINBASE, in first
\* place, whose requester is the miner and whose amount is the mining reward
\* plus the miner's 33.33% of the escrow paid out by the RELEASEs and buyouts
\* of that block.
C22_CoinbaseOfMinedBlock ==
    [][\A miner \in UserKeys, max_txs \in {0, 1} :
          MineTo(miner, max_txs, MaxEcon) =>
             /\ MinedTxs[1].tx_type = COINBASE
             /\ MinedTxs[1].requester = miner
             /\ \A j \in 2..Len(MinedTxs) : MinedTxs[j].tx_type # COINBASE
             /\ MinedTxs[1].amount = MINING_REWARD + MinerEscrow(Len(MinedTxs))]_vars

\* A mined block whose coinbase carries a share of paid-out escrow, once for
\* a RELEASE and once for a buyout.
C22_Witness ==
    /\ \E i \in 2..Len(chain) :
          /\ chain[i].transactions[1].amount > MINING_REWARD
          /\ \E j \in 2..Len(chain[i].transactions) :
                chain[i].transactions[j].tx_type = RELEASE
    /\ \E i \in 2..Len(chain) :
          /\ chain[i].transactions[1].amount > MINING_REWARD
          /\ \E j \in 2..Len(chain[i].transactions) :
                chain[i].transactions[j].signature.kind = "ESCROW_DISTRIBUTION"

\* What stays pending when the first `room` transactions that are not offers
\* are taken out of the pool, from position i on.
RECURSIVE StillPending(_, _, _)
StillPending(pool, i, room) ==
    IF i > Len(pool) THEN << >>
    ELSE IF pool[i].tx_type = BUYOUT_OFFER \/ room = 0
    THEN <<pool[i]>> \o StillPending(pool, i + 1, room)
    ELSE StillPending(pool, i + 1, room - 1)

\* C23: after mine_block the mempool is the prior mempool without the
\* selected transactions (the first max_txs that are not BUYOUT_OFFERs, all
\* of them when no limit is given), whether or not they entered the block;
\* BUYOUT_OFFERs stay pending and no mined block holds one.
C23_MempoolAfterMine ==
    [][\A max_txs \in {0, 1} :
          MineTo("0a", max_txs, MaxBlocks) =>
             /\ mempool' = StillPending(mempool, 1,
                                        IF max_txs = 0 THEN Len(mempool) ELSE max_txs)
             /\ \A j \in 1..Len(MinedTxs) : MinedTxs[j].tx_type # BUYOUT_OFFER]_vars

\* Right after a mine_block limited to one transaction: the selected one was
\* taken out although it failed re-validation (the block holds the coinbase
\* alone), the next one and an offer are still pending.
C23_Witness ==
    /\ last.op = "mine_block"
    /\ Len(chain[Len(chain)].transactions) = 1
    /\ \E i \in 1..Len(mempool) : mempool[i].tx_type = BUYOUT_OFFER
    /\ \E i \in 1..Len(mempool) : mempool[i].tx_type = REQUEST

\* A batch add_block must refuse, read off the ledger before the call: some
\* transaction of it carries a bad signature, asks for more credits than its
\* requester has by then, is a REQUEST at the base cost of an item held by
\* then, or is a RELEASE of an item free by then.
HeldBy(txs, i, uid) ==
    LET earlier == {j \in 1..(i - 1) :
                      /\ txs[j].uid = uid
                      /\ \/ txs[j].tx_type = RELEASE
                         \/ txs[j].tx_type = REQUEST /\ txs[j].amount >= ITEM_REQUEST_COST}
    IN IF earlier = {} THEN uid \in allocation(chain)
       ELSE txs[CHOOSE j \in earlier : \A k \in earlier : k <= j].tx_type = REQUEST

RECURSIVE CreditsBy(_, _, _)
CreditsBy(txs, i, k) ==
    IF i = 0 THEN get_balance(chain, k)
    ELSE CreditsBy(txs, i - 1, k)
         + (IF txs[i].requester # k THEN 0
            ELSE IF txs[i].tx_type = REQUEST THEN 0 - txs[i].amount
            ELSE IF txs[i].tx_type = RELEASE THEN txs[i].amount
            ELSE 0)

BatchRefused(txs) ==
    \E i \in 1..Len(txs) :
        /\ txs[i].tx_type # COINBASE
        /\ \/ ~RealSignature(txs[i])
           \/ /\ txs[i].tx_type = REQUEST
              /\ CreditsBy(txs, i - 1, txs[i].requester) < txs[i].amount
           \/ /\ txs[i].tx_type = REQUEST
              /\ txs[i].amount = ITEM_REQUEST_COST
              /\ HeldBy(txs, i, txs[i].uid)
           \/ /\ txs[i].tx_type = RELEASE
              /\ ~HeldBy(txs, i, txs[i].uid)

\* C24: a batch add_block must refuse makes it raise, with nothing appended
\* and chain, mempool and maps as before; any other batch is appended whole
\* as exactly one block whose index is the previous length and whose
\* prev_hash is the previous tip's hash, the mempool left alone.
C24_AddBlockAllOrNothing ==
    [][\A txs \in BatchInputs(now) :
          AddBlockTo(txs, MaxBlocks) =>
             IF BatchRefused(txs)
             THEN ~last'.ret /\ ledger' = ledger
             ELSE /\ last'.ret
                  /\ Len(chain') = Len(chain) + 1
                  /\ SubSeq(chain', 1, Len(chain)) = chain
                  /\ chain'[Len(chain')].transactions = txs
                  /\ chain'[Len(chain')].index = Len(chain)
                  /\ chain'[Len(chain')].prev_hash = chain[Len(chain)].hash
                  /\ mempool' = mempool]_vars

\* add_block has just refused a batch on a ledger whose tip it appended
\* earlier, with an item allocated and transactions pending.
C24_Witness ==
    /\ last.op = "add_block" /\ ~last.ret
    /\ Len(chain) > 2
    /\ Len(chain[Len(chain)].transactions) = 1
    /\ chain[Len(chain)].transactions[1].tx_type = REQUEST
    /\ allocation(chain) # {}
    /\ mempool # << >>

\* C25: a new-block message whose index is the local length and whose
\* rebuilt transactions add_block accepts grows the chain by exactly one
\* block; any other message is dropped with chain, mempool and maps as
\* before.
C25_NewBlockInOrder ==
    [][\A d \in NewBlockInputs(chain, difficulty, now) :
          HandleNewBlock(d, MaxBlocks) =>
             IF /\ d.index = Len(chain)
                /\ \A i \in 1..Len(d.transactions) :
                      deserialize_pubkey(d.transactions[i].requester) # NoKey
                /\ ~BatchRefused(HandlerTxs(d, now))
             THEN /\ Len(chain') = Len(chain) + 1
                  /\ SubSeq(chain', 1, Len(chain)) = chain
                  /\ chain'[Len(chain')].index = d.index
                  /\ mempool' = mempool
             ELSE ledger' = ledger]_vars

\* A peer's block with its coinbase and a REQUEST has just been taken at the
\* local length, with transactions pending.
C25_Witness ==
    /\ last.op = "handle_new_block" /\ last.ret
    /\ last.idx = Len(chain) - 1
    /\ Len(chain) > 2
    /\ Len(chain[Len(chain)].transactions) = 2
    /\ mempool # << >>

\* C26 as stated: however local and peer-sourced appends interleave, the
\* blocks of the chain carry strictly increasing indexes, no two the same,
\* and each block's prev_hash is the hash of the block directly before it.
C26_AsStated ==
    /\ \A i, j \in 1..Len(chain) : i < j => chain[i].index < chain[j].index
    /\ \A i \in 2..Len(chain) : chain[i].prev_hash = chain[i - 1].hash

\* A well-signed REQUEST by tx's requester of an item that is free on the
\* chain, while another principal's REQUEST of it at the base cost is
\* pending: the second of two regular REQUESTs of the same free item.
SecondRegular(tx) ==
    /\ tx.tx_type = REQUEST
    /\ verify(tx) = True
    /\ tx.uid \notin allocation(chain)
    /\ ProvisionalBalance(tx.requester) >= ITEM_REQUEST_COST
    /\ \E i \in 1..Len(mempool) :
          /\ mempool[i].tx_type = REQUEST
          /\ mempool[i].uid = tx.uid
          /\ mempool[i].requester # tx.requester
          /\ mempool[i].amount = ITEM_REQUEST_COST

C31_MalformedFrame ==
    [][\A p \in PeerObjs : \A frame \in Frames(chain, difficulty, now) :
          (ReceiveFrame(p, frame) /\ frame.kind # "new_block") =>
             /\ ledger' = ledger
             /\ IF frame.kind = "not_json" THEN net' = net
                ELSE /\ p \notin net'.registry
                     /\ net'.peer[p].reader = "closing"]_vars

\* A line that is not JSON has just been passed over on a node that took a
\* peer's block earlier, with one peer dropped and another still registered
\* and reading.
C31_Witness ==
    /\ last.op = "recv" /\ last.ret
    /\ Len(chain) > 1
    /\ \E p \in PeerObjs : net.peer[p].reader \in {"closing", "done"}
    /\ \E q \in net.registry : net.peer[q].reader = "run"

\* C31 as stated: every malformed line takes the peer that sent it out of
\* the registry and leaves the ledger alone.
C31_AsStated ==
    [][\A p \in PeerObjs : \A frame \in Frames(chain, difficulty, now) :
          (ReceiveFrame(p, frame) /\ frame.kind # "new_block") =>
             /\ ledger' = ledger
             /\ p \notin net'.registry]_vars

\* C32 as stated: a call of add_to_mempool leaves the chain, allocation(),
\* every key's chain-derived balance and the value, demand and escrow maps as
\* they were, and a call that returns false leaves the mempool as it was too.
C32_AsStated ==
    [][last'.op = "add_to_mempool" =>
          /\ chain' = chain
          /\ allocation(chain') = allocation(chain)
          /\ \A k \in UserKeys : get_balance(chain', k) = get_balance(chain, k)
          /\ maps' = maps
          /\ ~last'.ret => mempool' = mempool]_vars

\* C33 as stated: after repair() has truncated the chain and after
\* replace_chain() has adopted one, an item has derived state exactly when
\* the replay of the resulting chain from genesis gives it some, with the
\* replayed request time, value, demand and escrow.
C33_AsStated ==
    [][(last'.op \in {"repair", "replace_chain"} /\ last'.ret /\ chain' # chain) =>
          LET t == rebuild_item_tracking(chain') IN
          \A it \in Items :
             LET uid == ItemUid(it) IN
             /\ uid \in DOMAIN item_values' <=> uid \in DOMAIN t.values
             /\ uid \in DOMAIN item_request_times' <=> uid \in DOMAIN t.request_times
             /\ Get(item_request_times', uid, 0) = Get(t.request_times, uid, 0)
             /\ Get(item_values', uid, ITEM_REQUEST_COST) = Get(t.values, uid, ITEM_REQUEST_COST)
             /\ Get(item_demand_counters', uid, 0) = Get(t.demand_counters, uid, 0)
             /\ Get(item_escrow', uid, 0) = Get(t.escrow, uid, 0)]_vars

\* C34 as stated: whatever is submitted and mined, the balance get_balance
\* derives from the chain is never negative, for any principal.
C34_AsStated ==
    \A k \in UserKeys : get_balance(chain, k) >= 0

\* C35 as stated: when a peer whose chain and tracking maps are the local
\* ones mines a block (with nothing pending, or with what is pending here)
\* and the new-block handler accepts its announcement, the block appended
\* locally is the announced one (transactions with their amounts and
\* recipients, nonce, timestamp, hash), and allocation and balances of the
\* two chains stay the same.
C35_AsStated ==
    [][LET t == [request_times |-> item_request_times,
                 demand_counters |-> item_demand_counters,
                 values |-> item_values, escrow |-> item_escrow]
           mined(pool) ==
               to_full_dict(mine_block(chain, difficulty, pool, t, "0b", 0, now).blk)
       IN
       \A d \in NewBlockInputs(chain, difficulty, now) :
          (/\ d \in {mined(<< >>), mined(mempool)}
           /\ HandleNewBlock(d, MaxBlocks)
           /\ last'.ret) =>
             LET theirs == Append(chain, ReconstructBlock(d, now)) IN
             /\ to_full_dict(chain'[Len(chain')]) = d
             /\ allocation(chain') = allocation(theirs)
             /\ \A k \in UserKeys : get_balance(chain', k) = get_balance(theirs, k)]_vars

\* C36 as stated: the transaction list of every block mine_block produces
\* passes add_block's validation on the chain as it was before the mine.
C36_AsStated ==
    [][Mined => ~add_block(chain, difficulty, MinedTxs, now).raises]_vars

\* C37 as stated: with the monitor running and the corruptions (all past
\* genesis) bounded in number, a chain that fails integrity_check always
\* comes to pass it again, a second corruption right after a repair included.
C37_AsStated ==
    (integrity_check(chain) # True) ~> (integrity_check(chain) = True)

\* C38 as stated: a Peer whose connection is open and whose read loop runs
\* is in the registry (until its own disconnect), also when another
\* connection to the same host:port exists or is disconnected.
C38_AsStated ==
    \A p \in PeerObjs :
        (net.peer[p].connected /\ net.peer[p].reader = "run") => p \in net.registry

\* C39 as stated: whatever amount the caller put into a TRANSFER that was
\* admitted and mined, the amount is not negative, the block takes exactly
\* the amount from the sender and gives exactly the amount to the recipient:
\* the recipient's balance does not go down and the sender's does not go up.
C39_AsStated ==
    [][Mined =>
          \A j \in 1..Len(MinedTxs) :
             LET tx == MinedTxs[j] IN
             (tx.tx_type = TRANSFER /\ tx.signature.kind = "ecdsa") =>
                /\ tx.amount >= 0
                /\ BalanceChange(tx.requester) - CoinbaseTo(tx.requester) = 0 - tx.amount
                /\ BalanceChange(tx.recipient) - CoinbaseTo(tx.recipient) = tx.amount]_vars

\* C40: the live chain always holds at least one block, whatever is
\* submitted, mined, added, repaired or adopted, a repair on a chain whose
\* genesis block is corrupt included.
C40_ChainNeverEmpty ==
    Len(chain) >= 1

\* C40 witness: repair() has just run on a chain of several blocks whose
\* first bad block is genesis.
C40_Witness ==
    /\ last.op = "repair"
    /\ last.idx = 0
    /\ find_bad_block(chain) = 0
    /\ Len(chain) > 1

====
